---- MODULE Spec2Model ----
(***************************************************************************)
(* Order creation and payment settlement of the farm backend.              *)
(*                                                                         *)
(* The committed database tables (products, orders, order_items,           *)
(* device_tokens, notifications, notification_recipients) are the shared   *)
(* state.  Every request handler runs in a worker with its own SQLAlchemy  *)
(* session: rows a session has flushed but not committed live in tx[w] and *)
(* are invisible to the other workers.  Handlers that commit more than     *)
(* once, or that read and later write, are split at their commit points,   *)
(* so that requests served by different server processes interleave.       *)
(* Prices are integers (whole naira); the Float columns are not modelled.  *)
(***************************************************************************)
EXTENDS Integers, Sequences, FiniteSets, TLC

\* ---------------------------------------------------------------- bounds
MaxProducts == 2
MaxOrders == 1
MaxItems == 2
NumWorkers == 2
MaxConfirms == 1
MaxUploads == 2
MaxTokens == 3
MaxNotifications == 2
MaxTime == 2
MaxFilterLen == 3
MaxSearchLen == 3
MaxTransactions == 2

\* ------------------------------------------------------ program constants
\* routes/orders.py: per-line quantity cap and order total ceiling
MaxQuantity == 1000
MaxTotal == 10000000
\* routes/orders.py: MAX_FILE_SIZE, 10 MB in bytes
MaxFileSize == 10485760

\* ------------------------------------------------------------ input sets
ProductIds == 1..MaxProducts
OrderIds == 1..MaxOrders
Workers == 1..NumWorkers
Names == {"catfish", "tilapia"}
Prices == {0, 3000}
\* product_id values a client may send: 0 is falsy
PidInputs == 0..MaxProducts
QtyInputs == {-1, 0, 2, MaxQuantity + 1}
Methods == {"transfer", "paystack"}
CreateOps == {"create_order", "app_create_order"}
StatusInputs == {"confirmed", "completed", "cancelled"}
None == "None"

\* ------------------------------------------------------------------ state
VARIABLES
  products,        \* products table: id -> [name, price, available]
  next_product_id, \* products.id sequence
  orders,          \* orders table: id -> [total_amount, status]
  order_items,     \* order_items table, rows in insertion order
  next_order_id,   \* orders.id sequence
  device_tokens,   \* device_tokens table: set of rows
  next_token_id,   \* device_tokens.id sequence
  notifications,   \* notifications table: id -> [sent_count, failed_count]
  recipients,      \* notification_recipients table: set of rows
  firebase,        \* firebase_admin_initialized and messaging (module globals)
  secret,          \* PAYSTACK_SECRET_KEY of the environment, or None
  uploads,         \* number of files in PAYMENT_PROOFS_DIR
  transactions,    \* the payment provider's transactions: [order_id, amount] in kobo
  pc,              \* worker -> position in its handler
  loc,             \* worker -> the handler's local variables
  tx,              \* worker -> rows flushed in the session's open transaction
  expected,        \* order id -> the items its create_order computed (history)
  confirms,        \* order id -> pending->confirmed writes by payment handlers (history)
  pay_notifies     \* order id -> admin notifications triggered by payment handlers (history)

vars == <<products, next_product_id, orders, order_items, next_order_id,
          device_tokens, next_token_id, notifications, recipients, firebase,
          secret, uploads, transactions, pc, loc, tx, expected, confirms,
          pay_notifies>>

catalog == <<products, next_product_id>>
orderdb == <<orders, order_items, next_order_id>>
notifdb == <<device_tokens, next_token_id, notifications, recipients>>
env == <<firebase, secret, uploads, transactions>>
procs == <<pc, loc, tx>>
history == <<expected, confirms, pay_notifies>>

\* ---------------------------------------------------------------- helpers
RECURSIVE SumSubtotals(_)
SumSubtotals(rows) ==
  IF rows = <<>> THEN 0 ELSE Head(rows).subtotal + SumSubtotals(Tail(rows))

\* Order.order_items: the rows of order_items that belong to order oid
ItemsOf(table, oid) == SelectSeq(table, LAMBDA r : r.order_id = oid)

StripOrderId(rows) ==
  [i \in 1..Len(rows) |->
     [product_id |-> rows[i].product_id, product_name |-> rows[i].product_name,
      product_price |-> rows[i].product_price, quantity |-> rows[i].quantity,
      subtotal |-> rows[i].subtotal]]

NoTx == [orders |-> <<>>, items |-> <<>>]

NoLoc == [op |-> None, bad_product |-> FALSE, bad_quantity |-> FALSE, accepted |-> 0,
          order_items |-> <<>>, total_amount |-> 0, success |-> FALSE,
          method |-> None, order_id |-> 0, status_read |-> None,
          committed |-> FALSE, attempted |-> FALSE, notify |-> None,
          auth |-> None, result |-> 0,
          proof |-> None, proof_saved |-> FALSE, status |-> None,
          token |-> None, device_id |-> None, is_admin |-> FALSE,
          found |-> [id |-> 0, device_id |-> None, is_admin |-> FALSE],
          retried |-> FALSE, delivery |-> <<>>,
          notification_id |-> 0, recipient |-> 0, clicked |-> FALSE,
          event |-> None,
          status_filter |-> <<>>, search |-> <<>>, listing |-> {},
          amount |-> 0]

\* No handler has an answer waiting to be sent: a worker that reached "done"
\* sends its response (Respond) before any other request is looked at, so a
\* state holds the record of at most one finished request
Quiet == \A v \in Workers : pc[v] # "done"

Idle(w) == pc[w] = "idle" /\ Quiet

\* The handler returns or raises: the response code is code
Finish(w, l, code) ==
  /\ pc' = [pc EXCEPT ![w] = "done"]
  /\ loc' = [loc EXCEPT ![w] = [l EXCEPT !.result = code, !.order_items = <<>>,
                                         !.total_amount = 0]]

\* ------------------------------------------------------- product catalog
\* ProductService.create_product behind routes/products.py create_product
CreateProduct ==
  \E n \in Names, p \in Prices, a \in BOOLEAN :
    /\ Quiet
    /\ next_product_id <= MaxProducts
    /\ products' = [i \in DOMAIN products \cup {next_product_id} |->
                      IF i = next_product_id
                      THEN [name |-> n, price |-> p, available |-> a]
                      ELSE products[i]]
    /\ next_product_id' = next_product_id + 1
    /\ UNCHANGED <<orderdb, notifdb, env, procs, history>>

\* update_data of routes/products.py update_product: a field left out is None
\* (the dict holds a key only for a form field that was sent)
UpdateInputs ==
  {[name |-> n] : n \in Names}
  \cup {[price |-> p] : p \in Prices}
  \cup {[available |-> a] : a \in BOOLEAN}
  \cup {[name |-> n, price |-> p] : n \in {"tilapia"}, p \in {3000}}

\* ProductService.update_product: setattr for every key of update_data
ApplyUpdate(product, update_data) ==
  [k \in DOMAIN product |->
     IF k \in DOMAIN update_data THEN update_data[k] ELSE product[k]]

UpdateProduct ==
  \E id \in DOMAIN products, u \in UpdateInputs :
    /\ Quiet
    /\ products' = [products EXCEPT ![id] = ApplyUpdate(products[id], u)]
    /\ UNCHANGED <<next_product_id, orderdb, notifdb, env, procs, history>>

\* ProductService.delete_product.  order_items.product_id is a foreign key
\* without cascade: PostgreSQL refuses the delete of a referenced product
\* (the commit raises, nothing changes), SQLite without foreign-key
\* enforcement performs it and leaves the item rows as they are.
DeleteProduct ==
  \E id \in DOMAIN products, fk_enforced \in BOOLEAN :
    /\ Quiet
    /\ \/ ~fk_enforced
       \/ \A i \in 1..Len(order_items) : order_items[i].product_id # id
    /\ products' = [i \in DOMAIN products \ {id} |-> products[i]]
    /\ UNCHANGED <<next_product_id, orderdb, notifdb, env, procs, history>>

\* ---------------------------------------------------------- create_order
\* ItemRow with the subtotal taken as the unit price (the quantity forgotten)
ItemRowNoQuantity(product_id, product, quantity) ==
  [product_id |-> product_id, product_name |-> product.name,
   product_price |-> product.price, quantity |-> quantity,
   subtotal |-> product.price]

\* One row of order_items as the handler builds it from the product it read
ItemRow(product_id, product, quantity) ==
  [product_id |-> product_id, product_name |-> product.name,
   product_price |-> product.price, quantity |-> quantity,
   subtotal |-> product.price * quantity]

\* allowed_extensions of create_order
AllowedExtensions == {".jpg", ".jpeg", ".png", ".gif", ".pdf", ".webp"}

\* Path(filename).suffix.lower() on the suffixes the requests carry
Lower(suffix) == IF suffix = ".PNG" THEN ".png" ELSE suffix

\* payment_proof as a request attaches it: the length of its content and the
\* suffix of its file name
ProofFiles == [size : {0, 1, MaxFileSize, MaxFileSize + 1},
               suffix : {".png", ".PNG", ".exe", ""}]

\* CheckProof without the test of the extension
CheckProofAnyExtension(file) ==
  IF file.size > MaxFileSize THEN 400
  ELSE IF file.size = 0 THEN 400
  ELSE 200

\* create_order, the checks of the attached file before it is written
CheckProof(file) ==
  IF file.size > MaxFileSize THEN 400
  ELSE IF file.size = 0 THEN 400
  ELSE IF Lower(file.suffix) \notin AllowedExtensions THEN 400
  ELSE 200

\* What the request attached, recorded for the properties: a file that is
\* too large, empty, or of a type that is not allowed
BadProof(file) ==
  \/ file.size > MaxFileSize
  \/ file.size = 0
  \/ file.suffix \notin {".jpg", ".jpeg", ".png", ".gif", ".pdf", ".webp",
                          ".PNG"}

\* CheckItem without the test of product.available
CheckItemNoAvailable(cat, product_id, quantity) ==
  IF product_id = 0 \/ quantity = 0 THEN 400
  ELSE IF product_id <= 0 THEN 400
  ELSE IF quantity <= 0 THEN 400
  ELSE IF quantity > MaxQuantity THEN 400
  ELSE IF product_id \notin DOMAIN cat THEN 404
  ELSE IF cat[product_id].price <= 0 THEN 400
  ELSE 200

\* routes/orders.py create_order, one iteration of the loop over items_list:
\* the HTTP status of the first failing check, or 200
CheckItem(cat, product_id, quantity) ==
  IF product_id = 0 \/ quantity = 0 THEN 400
  ELSE IF product_id <= 0 THEN 400
  ELSE IF quantity <= 0 THEN 400
  ELSE IF quantity > MaxQuantity THEN 400
  ELSE IF product_id \notin DOMAIN cat THEN 404
  ELSE IF ~cat[product_id].available THEN 400
  ELSE IF cat[product_id].price <= 0 THEN 400
  ELSE IF cat[product_id].price * quantity <= 0 THEN 400
  ELSE 200

\* CheckTotal without the ceiling
CheckTotalNoCeiling(total_amount) ==
  IF total_amount <= 0 THEN 400
  ELSE 200

\* routes/orders.py create_order, the checks of the total after the loop
CheckTotal(total_amount) ==
  IF total_amount <= 0 THEN 400
  ELSE IF total_amount > MaxTotal THEN 400
  ELSE 200

\* app.py create_order, the same loop in the single-file application: only the
\* falsy check and the product lookup, no range check
AppCheckItem(cat, product_id, quantity) ==
  IF product_id = 0 \/ quantity = 0 THEN 400
  ELSE IF product_id \notin DOMAIN cat THEN 404
  ELSE IF ~cat[product_id].available THEN 400
  ELSE 200

\* app.py create_order has no check of the total
AppCheckTotal(total_amount) == 200

\* What the request sent, recorded with the handler for the properties: the
\* item names no product of the catalog or an unavailable one; its quantity is
\* outside 1..MaxQuantity
BadProduct(product_id) ==
  product_id \notin DOMAIN products \/ ~products[product_id].available

BadQuantity(quantity) == quantity < 1 \/ quantity > MaxQuantity

\* create_order handlers that have not drawn their order id yet
CreatesInFlight == Cardinality({w \in Workers : pc[w] \in {"price", "flush"}})

\* create_order (routes/orders.py or app.py) receives a request; the sequence of
\* orders.id is bounded by MaxOrders
CreateOrderBegin(w, op) ==
  /\ Idle(w)
  /\ next_order_id + CreatesInFlight <= MaxOrders
  /\ \E method \in Methods :
       /\ op = "app_create_order" => method = "transfer"
       /\ loc' = [loc EXCEPT ![w] = [NoLoc EXCEPT !.op = op, !.method = method]]
  /\ pc' = [pc EXCEPT ![w] = "price"]
  /\ UNCHANGED <<catalog, orderdb, notifdb, env, tx, history>>

\* create_order receives a request with a payment_proof attached: the file is
\* checked and written to PAYMENT_PROOFS_DIR under a fresh name before the
\* items are looked at; open() or write() may fail (OSError: 500).  The
\* directory is bounded by MaxUploads.
CreateOrderWithProof(w) ==
  /\ Idle(w)
  /\ next_order_id + CreatesInFlight <= MaxOrders
  /\ uploads < MaxUploads
  /\ \E method \in Methods, file \in ProofFiles, disk_ok \in BOOLEAN :
       LET l == [NoLoc EXCEPT !.op = "create_order", !.method = method,
                              !.proof = IF BadProof(file) THEN "bad" ELSE "good"]
           code == CheckProof(file)
       IN IF code # 200
          THEN Finish(w, l, code) /\ UNCHANGED uploads
          ELSE IF ~disk_ok
          THEN Finish(w, l, 500) /\ UNCHANGED uploads
          ELSE /\ uploads' = uploads + 1
               /\ pc' = [pc EXCEPT ![w] = "price"]
               /\ loc' = [loc EXCEPT ![w] = [l EXCEPT !.proof_saved = TRUE]]
  /\ UNCHANGED <<catalog, orderdb, notifdb, firebase, secret, transactions, tx,
                 history>>

\* One iteration of the loop over items_list: the item is the next one of the
\* request, the product is read from the committed catalog
PriceItem(w) ==
  /\ pc[w] = "price"
  /\ Quiet
  /\ Len(loc[w].order_items) < MaxItems
  /\ \E product_id \in PidInputs, quantity \in QtyInputs :
       LET code == IF loc[w].op = "create_order"
                   THEN CheckItem(products, product_id, quantity)
                   ELSE AppCheckItem(products, product_id, quantity)
           l == [loc[w] EXCEPT
                   !.bad_product = @ \/ BadProduct(product_id),
                   !.bad_quantity = @ \/ BadQuantity(quantity)]
       IN IF code = 200
          THEN LET row == ItemRow(product_id, products[product_id], quantity)
               IN /\ loc' = [loc EXCEPT ![w] =
                       [l EXCEPT !.order_items = Append(@, row),
                                 !.total_amount = @ + row.subtotal,
                                 !.accepted = @ + 1]]
                  /\ UNCHANGED pc
          ELSE Finish(w, l, code)
  /\ UNCHANGED <<catalog, orderdb, notifdb, env, tx, history>>

\* The loop is over: the checks of the total, then OrderService.create_order
PriceEnd(w) ==
  /\ pc[w] = "price"
  /\ Quiet
  /\ LET code == IF loc[w].op = "create_order" THEN CheckTotal(loc[w].total_amount)
                 ELSE AppCheckTotal(loc[w].total_amount)
     IN IF code = 200
        THEN /\ pc' = [pc EXCEPT ![w] = "flush"]
             /\ UNCHANGED loc
        ELSE Finish(w, loc[w], code)
  /\ UNCHANGED <<catalog, orderdb, notifdb, env, tx, history>>

\* OrderData that creates the order as already confirmed
OrderDataConfirmed(total_amount) ==
  [total_amount |-> total_amount, status |-> "confirmed"]

\* order_data of create_order: the row of the new order
OrderData(total_amount) ==
  [total_amount |-> total_amount, status |-> "pending"]

\* FlushOrderRow on a session that commits the order row as it is flushed
FlushOrderRowAutocommit(committed_orders, pending_orders, id, row) ==
  [committed |-> [i \in DOMAIN committed_orders \cup {id} |->
                    IF i = id THEN row ELSE committed_orders[i]],
   pending |-> pending_orders]

\* The rows a flush sends inside the open transaction: [committed, pending]
FlushOrderRow(committed_orders, pending_orders, id, row) ==
  [committed |-> committed_orders,
   pending |-> [i \in DOMAIN pending_orders \cup {id} |->
                  IF i = id THEN row ELSE pending_orders[i]]]

\* OrderService.create_order: db.add(db_order); db.flush().  The INSERT draws
\* the id; a database error raises, the except block rolls back and re-raises.
OrderFlush(w) ==
  /\ pc[w] = "flush"
  /\ Quiet
  /\ \E db_ok \in BOOLEAN :
       IF db_ok
       THEN LET row == OrderData(loc[w].total_amount)
                f == FlushOrderRow(orders, tx[w].orders, next_order_id, row)
            IN /\ orders' = f.committed
               /\ tx' = [tx EXCEPT ![w].orders = f.pending]
               /\ next_order_id' = next_order_id + 1
               /\ expected' = [i \in DOMAIN expected \cup {next_order_id} |->
                                 IF i = next_order_id THEN loc[w].order_items
                                 ELSE expected[i]]
               /\ pc' = [pc EXCEPT ![w] = "commit"]
               /\ loc' = [loc EXCEPT ![w].order_id = next_order_id]
               /\ UNCHANGED <<order_items>>
       ELSE /\ tx' = [tx EXCEPT ![w] = NoTx]
            /\ Finish(w, loc[w], 500)
            /\ UNCHANGED <<orders, order_items, next_order_id, expected>>
  /\ UNCHANGED <<catalog, notifdb, env, confirms, pay_notifies>>

\* The item rows of the session, with the order id the flush returned
PendingItems(w) ==
  [i \in 1..Len(loc[w].order_items) |->
     [order_id |-> loc[w].order_id,
      product_id |-> loc[w].order_items[i].product_id,
      product_name |-> loc[w].order_items[i].product_name,
      product_price |-> loc[w].order_items[i].product_price,
      quantity |-> loc[w].order_items[i].quantity,
      subtotal |-> loc[w].order_items[i].subtotal]]

\* OrderService.create_order: db.add of every item, then db.commit(), which
\* inserts the item rows one by one and commits.  An error at item fail_at (a
\* product deleted meanwhile, a lost connection), or at the COMMIT after the
\* last item, raises: db.rollback() discards the order row and the item rows
\* already sent; the handler answers 500.
OrderCommit(w) ==
  /\ pc[w] = "commit"
  /\ Quiet
  /\ \E fail_at \in 0..(Len(loc[w].order_items) + 1) :
       IF fail_at = 0
       THEN /\ orders' = [i \in DOMAIN orders \cup DOMAIN tx[w].orders |->
                            IF i \in DOMAIN tx[w].orders THEN tx[w].orders[i]
                            ELSE orders[i]]
            /\ order_items' = order_items \o PendingItems(w)
            /\ tx' = [tx EXCEPT ![w] = NoTx]
            /\ pc' = [pc EXCEPT ![w] = "notify"]
            /\ loc' = [loc EXCEPT ![w].committed = TRUE]
       ELSE /\ tx' = [tx EXCEPT ![w] = NoTx]
            /\ Finish(w, loc[w], 500)
            /\ UNCHANGED <<orders, order_items>>
  /\ UNCHANGED <<catalog, next_order_id, notifdb, env, history>>


\* ------------------------------------------------- Notification Dispatcher
Outcomes == {"sent", "failed", "invalid"}

AdminTokens == {t \in device_tokens : t.is_admin}

\* Whether the exception text of a failed delivery makes the loop drop the token
TokenInvalid(outcome) == outcome = "invalid"

\* RecipientRows that records a row for every token, delivered or not
RECURSIVE RecipientRowsAllAttempts(_, _, _)
RecipientRowsAllAttempts(token_ids, outcome, notification_id) ==
  IF token_ids = {} THEN <<>>
  ELSE LET id == CHOOSE i \in token_ids : \A j \in token_ids : i <= j
           t == CHOOSE r \in device_tokens : r.id = id
       IN <<[notification_id |-> notification_id, device_id |-> t.device_id,
             fcm_token_id |-> id, is_clicked |-> FALSE,
             clicked_at |-> 0]>>
          \o RecipientRowsAllAttempts(token_ids \ {id}, outcome, notification_id)

\* The loop over the tokens of a send (send_notification_to_admin and
\* send_notification_to_all): the NotificationRecipient rows it adds, in the
\* order of the token ids; outcome gives, for every token id, what
\* messaging.send did.  A row is added after a send that did not raise.
RECURSIVE RecipientRows(_, _, _)
RecipientRows(token_ids, outcome, notification_id) ==
  IF token_ids = {} THEN <<>>
  ELSE LET id == CHOOSE i \in token_ids : \A j \in token_ids : i <= j
           t == CHOOSE r \in device_tokens : r.id = id
           rest == RecipientRows(token_ids \ {id}, outcome, notification_id)
       IN IF outcome[id] = "sent"
          THEN <<[notification_id |-> notification_id, device_id |-> t.device_id,
                  fcm_token_id |-> id, is_clicked |-> FALSE,
             clicked_at |-> 0]>> \o rest
          ELSE rest

\* NullRecipients that leaves the references as they are
NullRecipientsSkipped(rows, removed) == rows

\* UPDATE notification_recipients SET fcm_token_id = NULL for the rows that
\* reference a token about to be deleted (0 stands for NULL)
NullRecipients(rows, removed) ==
  [i \in 1..Len(rows) |->
     IF rows[i].fcm_token_id \in removed
     THEN [rows[i] EXCEPT !.fcm_token_id = 0]
     ELSE rows[i]]

\* SendRows whose failed_count leaves out the deliveries that failed with a
\* token-invalid error
SendRowsInvalidUncounted(tokens, outcome) ==
  LET ids == {t.id : t \in tokens}
      notification_id == Len(notifications) + 1
      removed == {i \in ids : outcome[i] # "sent" /\ TokenInvalid(outcome[i])}
  IN [device_tokens |-> {t \in device_tokens : t.id \notin removed},
      notifications |->
        Append(notifications,
               [sent_count |-> Cardinality({i \in ids : outcome[i] = "sent"}),
                failed_count |-> Cardinality({i \in ids : outcome[i] = "failed"})]),
      recipients |-> NullRecipients(recipients, removed)
                     \o RecipientRows(ids, outcome, notification_id)]

\* A send to the token rows tokens, as the tables the session commits: the
\* Notification row with its counts, the recipients, the tokens without
\* those whose delivery error was classified as token-invalid
SendRows(tokens, outcome) ==
  LET ids == {t.id : t \in tokens}
      notification_id == Len(notifications) + 1
      removed == {i \in ids : outcome[i] # "sent" /\ TokenInvalid(outcome[i])}
  IN [device_tokens |-> {t \in device_tokens : t.id \notin removed},
      notifications |->
        Append(notifications,
               [sent_count |-> Cardinality({i \in ids : outcome[i] = "sent"}),
                failed_count |-> Cardinality({i \in ids : outcome[i] # "sent"})]),
      recipients |-> NullRecipients(recipients, removed)
                     \o RecipientRows(ids, outcome, notification_id)]

\* NotificationService.send_notification_to_admin: the send to the admin rows
SendToAdminRows(outcome) == SendRows(AdminTokens, outcome)

\* The locals of a handler that returns normally
Returned(l) == [l EXCEPT !.result = 200, !.order_items = <<>>, !.total_amount = 0]

\* AfterNotify of a handler that lets the dispatcher's exception through
AfterNotifyReraise(l, outcome) ==
  [Returned(l) EXCEPT !.attempted = TRUE, !.notify = outcome,
                      !.result = IF outcome = "raised" THEN 500 ELSE 200]

\* The handler after its try/except around the dispatcher call: whatever the
\* call did (outcome), the exception is printed and the handler returns
AfterNotify(l, outcome) ==
  [Returned(l) EXCEPT !.attempted = TRUE, !.notify = outcome]

\* The call of NotificationService.send_notification_to_admin a handler makes
\* inside try/except: "none" when there is no admin token (returns None),
\* "committed" when db.commit() succeeded, "raised" when it failed and the
\* session rolled the notification's rows back; the handler swallows the
\* exception.  The rows of orders and order_items are not touched.
SendNotificationToAdmin(w, l) ==
  IF AdminTokens = {}
  THEN /\ loc' = [loc EXCEPT ![w] = AfterNotify(l, "none")]
       /\ UNCHANGED notifdb
  ELSE \E outcome \in [{t.id : t \in AdminTokens} -> Outcomes], commit_ok \in BOOLEAN :
         IF commit_ok
         THEN LET rows == SendToAdminRows(outcome)
              IN /\ device_tokens' = rows.device_tokens
                 /\ notifications' = rows.notifications
                 /\ recipients' = rows.recipients
                 /\ UNCHANGED next_token_id
                 /\ loc' = [loc EXCEPT ![w] =
                              [AfterNotify(l, "committed") EXCEPT !.delivery = outcome]]
         ELSE /\ loc' = [loc EXCEPT ![w] = AfterNotify(l, "raised")]
              /\ UNCHANGED notifdb

\* NotifiesOnCreate with the test of the payment method inverted
NotifiesOnCreateInverted(op, method, sdk) ==
  IF op = "create_order" THEN method # "transfer" /\ sdk ELSE sdk

\* Whether create_order calls the dispatcher at all: routes/orders.py notifies
\* at once only for transfer payments, and only when the push SDK was imported
NotifiesOnCreate(op, method, sdk) ==
  IF op = "create_order" THEN method = "transfer" /\ sdk ELSE sdk

\* create_order after OrderService.create_order returned: the notification in
\* try/except, then return created_order
OrderNotify(w) ==
  /\ pc[w] = "notify"
  /\ Quiet
  /\ IF NotifiesOnCreate(loc[w].op, loc[w].method, firebase)
     THEN SendNotificationToAdmin(w, loc[w])
     ELSE /\ loc' = [loc EXCEPT ![w] = Returned(loc[w])]
          /\ UNCHANGED notifdb
  /\ pc' = [pc EXCEPT ![w] = "done"]
  /\ UNCHANGED <<catalog, orderdb, env, tx, history>>

\* The response of a finished handler is sent; the worker is free again
Respond(w) ==
  /\ pc[w] = "done"
  /\ pc' = [pc EXCEPT ![w] = "idle"]
  /\ loc' = [loc EXCEPT ![w] = NoLoc]
  /\ UNCHANGED <<catalog, orderdb, notifdb, env, tx, history>>

\* ------------------------------------------------------ token registration
FcmTokens == {"t1", "t2"}
DeviceIds == {"d1", "d2"}

\* db.query(DeviceToken).filter(fcm_token == token).first() as the columns
\* register_token looks at; id 0 when there is no such row
FindToken(table, token) ==
  IF \E r \in table : r.fcm_token = token
  THEN LET r == CHOOSE r \in table : r.fcm_token = token
       IN [id |-> r.id, device_id |-> r.device_id, is_admin |-> r.is_admin]
  ELSE [id |-> 0, device_id |-> None, is_admin |-> FALSE]

\* UpdateTokenRow that never writes the device id
UpdateTokenRowKeepDevice(row, read_device_id, device_id, is_admin) ==
  [row EXCEPT !.is_admin = IF is_admin THEN TRUE ELSE @]

\* UpdateTokenRow that writes the is_admin flag it was passed
UpdateTokenRowSetAdmin(row, read_device_id, device_id, is_admin) ==
  [row EXCEPT !.device_id = IF read_device_id # device_id THEN device_id ELSE @,
              !.is_admin = is_admin]

\* register_token on an existing row: the UPDATE writes device_id when the
\* value the session read differs from the one passed, and is_admin only to
\* set it
UpdateTokenRow(row, read_device_id, device_id, is_admin) ==
  [row EXCEPT !.device_id = IF read_device_id # device_id THEN device_id ELSE @,
              !.is_admin = IF is_admin THEN TRUE ELSE @]

\* InsertToken on a table without the unique constraint on fcm_token
InsertTokenNoUnique(table, row) ==
  [error |-> FALSE, table |-> table \cup {row}]

\* INSERT of a DeviceToken row at commit: fcm_token is unique, the commit of a
\* second row with the same token raises IntegrityError
InsertToken(table, row) ==
  IF \E r \in table : r.fcm_token = row.fcm_token
  THEN [error |-> TRUE, table |-> table]
  ELSE [error |-> FALSE, table |-> table \cup {row}]

\* register_token calls that may still insert a row
RegistersInFlight == Cardinality({w \in Workers : pc[w] = "reg_commit"})

\* register_token, the query for the token (both register routes: is_admin
\* is True on the admin route).  serial: no other request is being handled.
RegisterQuery(w, serial) ==
  /\ Idle(w)
  /\ serial => \A v \in Workers : pc[v] = "idle"
  /\ next_token_id + RegistersInFlight <= MaxTokens
  /\ \E token \in FcmTokens, device_id \in DeviceIds, is_admin \in BOOLEAN :
       loc' = [loc EXCEPT ![w] =
                 [NoLoc EXCEPT !.op = "register", !.token = token,
                               !.device_id = device_id, !.is_admin = is_admin,
                               !.found = FindToken(device_tokens, token)]]
  /\ pc' = [pc EXCEPT ![w] = "reg_commit"]
  /\ UNCHANGED <<catalog, orderdb, notifdb, env, tx, history>>

\* register_token, the commit of the try block.  Existing row: the UPDATE by
\* primary key; when the row was deleted meanwhile it matches no row and the
\* commit raises (not an IntegrityError: 500).  New row: the INSERT, and on
\* IntegrityError the rollback and the except block.
RegisterCommit(w) ==
  /\ pc[w] = "reg_commit"
  /\ Quiet
  /\ LET l == loc[w]
     IN IF l.found.id # 0
        THEN IF \E r \in device_tokens : r.id = l.found.id
             THEN /\ device_tokens' =
                       {IF r.id = l.found.id
                        THEN UpdateTokenRow(r, l.found.device_id, l.device_id, l.is_admin)
                        ELSE r : r \in device_tokens}
                  /\ Finish(w, l, 200)
                  /\ UNCHANGED next_token_id
             ELSE /\ Finish(w, l, 500)
                  /\ UNCHANGED <<device_tokens, next_token_id>>
        ELSE LET ins == InsertToken(device_tokens,
                                    [id |-> next_token_id, fcm_token |-> l.token,
                                     device_id |-> l.device_id, is_admin |-> l.is_admin])
             IN IF ins.error
                THEN /\ pc' = [pc EXCEPT ![w] = "reg_retry"]
                     /\ loc' = [loc EXCEPT ![w].retried = TRUE]
                     /\ UNCHANGED <<device_tokens, next_token_id>>
                ELSE /\ device_tokens' = ins.table
                     /\ next_token_id' = next_token_id + 1
                     /\ Finish(w, l, 200)
  /\ UNCHANGED <<catalog, orderdb, notifications, recipients, env, tx, history>>

\* register_token, the except block after the rollback: the query again, the
\* update of the row another request created, the commit; re-raise when the
\* row is gone
RegisterRetry(w) ==
  /\ pc[w] = "reg_retry"
  /\ Quiet
  /\ LET l == loc[w]
         existing == FindToken(device_tokens, l.token)
     IN IF existing.id # 0
        THEN /\ device_tokens' =
                  {IF r.id = existing.id
                   THEN UpdateTokenRow(r, existing.device_id, l.device_id, l.is_admin)
                   ELSE r : r \in device_tokens}
             /\ Finish(w, [l EXCEPT !.found = existing], 200)
        ELSE /\ Finish(w, l, 500)
             /\ UNCHANGED device_tokens
  /\ UNCHANGED <<catalog, orderdb, next_token_id, notifications, recipients, env,
                 tx, history>>

\* ------------------------------------------------- notification routes
\* routes/notifications.py send_notification_to_all with
\* NotificationService.send_notification_to_all: 503 without the push SDK,
\* an answer without rows when no device is registered, else the send to
\* every token; a failed commit rolls back and raises (500).  The
\* notifications table is bounded by MaxNotifications.
SendToAll(w) ==
  /\ Idle(w)
  /\ Len(notifications) < MaxNotifications
  /\ LET l == [NoLoc EXCEPT !.op = "send_to_all"]
     IN IF ~firebase
        THEN Finish(w, l, 503) /\ UNCHANGED notifdb
        ELSE IF device_tokens = {}
        THEN Finish(w, [l EXCEPT !.notify = "none"], 200) /\ UNCHANGED notifdb
        ELSE \E outcome \in [{t.id : t \in device_tokens} -> Outcomes],
                commit_ok \in BOOLEAN :
               IF commit_ok
               THEN LET rows == SendRows(device_tokens, outcome)
                    IN /\ device_tokens' = rows.device_tokens
                       /\ notifications' = rows.notifications
                       /\ recipients' = rows.recipients
                       /\ UNCHANGED next_token_id
                       /\ Finish(w, [l EXCEPT !.attempted = TRUE,
                                              !.notify = "committed",
                                              !.delivery = outcome], 200)
               ELSE /\ Finish(w, [l EXCEPT !.attempted = TRUE,
                                           !.notify = "raised"], 500)
                    /\ UNCHANGED notifdb
  /\ UNCHANGED <<catalog, orderdb, env, tx, history>>

\* routes/notifications.py unsubscribe_notification_token with
\* NotificationService.unsubscribe_token: the recipients' references are
\* nulled, the token row deleted; the answer is a success either way
UnsubscribeToken(w) ==
  /\ Idle(w)
  /\ \E token \in FcmTokens :
       LET existing == FindToken(device_tokens, token)
           l == [NoLoc EXCEPT !.op = "unsubscribe", !.token = token,
                              !.found = existing]
       IN IF existing.id # 0
          THEN /\ recipients' = NullRecipients(recipients, {existing.id})
               /\ device_tokens' = {t \in device_tokens : t.id # existing.id}
               /\ Finish(w, l, 200)
          ELSE /\ Finish(w, l, 200)
               /\ UNCHANGED <<device_tokens, recipients>>
  /\ UNCHANGED <<catalog, orderdb, next_token_id, notifications, env, tx, history>>

\* ---------------------------------------------------------- click tracking
\* datetime.utcnow() as a request may read it
Times == 1..MaxTime

\* The rows of notification_recipients (by position, which is their id) that
\* the filter of track_click matches
MatchingRecipients(rows, notification_id, device_id) ==
  {i \in 1..Len(rows) : /\ rows[i].notification_id = notification_id
                        /\ rows[i].device_id = device_id}

\* track_click: recipient.is_clicked = True; recipient.clicked_at = utcnow()
MarkClicked(row, now) == [row EXCEPT !.is_clicked = TRUE, !.clicked_at = now]

\* track_click behind routes/notifications.py track_notification_click, the
\* query: .first() without ORDER BY returns any one of the matching rows
\* (0: none).  No row, or a row already clicked: the answer is success False.
\* serial: no other request is being handled.
ClickQuery(w, serial) ==
  /\ Idle(w)
  /\ serial => \A v \in Workers : pc[v] = "idle"
  /\ \E notification_id \in 1..MaxNotifications, device_id \in DeviceIds :
       LET matching == MatchingRecipients(recipients, notification_id, device_id)
           l == [NoLoc EXCEPT !.op = "track_click",
                              !.notification_id = notification_id,
                              !.device_id = device_id]
       IN \E recipient \in IF matching = {} THEN {0} ELSE matching :
            IF recipient # 0 /\ ~recipients[recipient].is_clicked
            THEN /\ pc' = [pc EXCEPT ![w] = "click_commit"]
                 /\ loc' = [loc EXCEPT ![w] = [l EXCEPT !.recipient = recipient]]
            ELSE Finish(w, [l EXCEPT !.recipient = recipient], 200)
  /\ UNCHANGED <<catalog, orderdb, notifdb, env, tx, history>>

\* track_click, the commit: the UPDATE by primary key of the row the session
\* read, whatever another session wrote to it meanwhile; the answer is
\* success True.  A failed commit raises (500).
ClickCommit(w) ==
  /\ pc[w] = "click_commit"
  /\ Quiet
  /\ \E now \in Times, commit_ok \in BOOLEAN :
       IF commit_ok
       THEN /\ recipients' = [recipients EXCEPT ![loc[w].recipient] =
                                MarkClicked(@, now)]
            /\ Finish(w, [loc[w] EXCEPT !.clicked = TRUE], 200)
       ELSE /\ Finish(w, loc[w], 500)
            /\ UNCHANGED recipients
  /\ UNCHANGED <<catalog, orderdb, device_tokens, next_token_id, notifications,
                 env, tx, history>>

\* ------------------------------------------------------- order admin routes
\* OrderService.get_order(...).status, None when there is no such order
StatusRead(order_id) ==
  IF order_id # 0 /\ order_id \in DOMAIN orders THEN orders[order_id].status ELSE None

\* SetStatus that also clears the stored total
SetStatusResetTotal(db_order, status) ==
  [db_order EXCEPT !.status = status, !.total_amount = 0]

\* OrderService.update_order_status: db_order.status = status; db.commit()
SetStatus(db_order, status) == [db_order EXCEPT !.status = status]

\* routes/orders.py update_order -> OrderService.update_order_status
UpdateOrder ==
  \E id \in DOMAIN orders, status \in StatusInputs :
    /\ Quiet
    /\ orders' = [orders EXCEPT ![id] = SetStatus(@, status)]
    /\ UNCHANGED <<catalog, order_items, next_order_id, notifdb, env, procs, history>>

\* order_update.status values an admin may send: the statuses of the
\* lifecycle, another string, and the empty string
StatusStrings == StatusInputs \cup {"pending", "shipped", ""}

\* UpdateOrderRoute with a transition table: a status outside the lifecycle's
\* next steps is refused with 400
UpdateOrderRouteLifecycle(table, order_id, status) ==
  IF order_id \notin DOMAIN table THEN [orders |-> table, code |-> 404]
  ELSE IF status = "" THEN [orders |-> table, code |-> 200]
  ELSE IF <<table[order_id].status, status>> \notin
            {<<"pending", "confirmed">>, <<"confirmed", "completed">>,
             <<"pending", "cancelled">>}
       THEN [orders |-> table, code |-> 400]
  ELSE [orders |-> [table EXCEPT ![order_id] = SetStatus(@, status)], code |-> 200]

\* routes/orders.py update_order as a function of the table: the table after
\* the request and the HTTP status.  An empty (or absent) status is falsy:
\* the order is returned as it is.
UpdateOrderRoute(table, order_id, status) ==
  IF order_id \notin DOMAIN table THEN [orders |-> table, code |-> 404]
  ELSE IF status = "" THEN [orders |-> table, code |-> 200]
  ELSE [orders |-> [table EXCEPT ![order_id] = SetStatus(@, status)], code |-> 200]

\* update_order handled by worker w, its request and answer kept until the
\* response is sent; MaxOrders + 1 is the id of no order.  The admin sends
\* requests until the payments confirmed an order more than MaxConfirms times.
UpdateOrderRequest(w) ==
  /\ Idle(w)
  /\ \A o \in OrderIds : confirms[o] <= MaxConfirms
  /\ \E order_id \in 1..(MaxOrders + 1), status \in StatusStrings :
       LET r == UpdateOrderRoute(orders, order_id, status)
       IN /\ orders' = r.orders
          /\ Finish(w, [NoLoc EXCEPT !.op = "update_order", !.order_id = order_id,
                                     !.status = status,
                                     !.status_read = StatusRead(order_id)], r.code)
  /\ UNCHANGED <<catalog, order_items, next_order_id, notifdb, env, tx, history>>

\* DeleteOrder on a relationship without the delete cascade
DeleteOrderKeepItems ==
  \E id \in DOMAIN orders :
    /\ Quiet
    /\ orders' = [i \in DOMAIN orders \ {id} |-> orders[i]]
    /\ UNCHANGED <<catalog, order_items, next_order_id, notifdb, env, procs, history>>

\* routes/orders.py delete_order -> OrderService.delete_order; the relationship
\* cascade "all, delete-orphan" deletes the order's items with it
DeleteOrder ==
  \E id \in DOMAIN orders :
    /\ Quiet
    /\ orders' = [i \in DOMAIN orders \ {id} |-> orders[i]]
    /\ order_items' = SelectSeq(order_items, LAMBDA r : r.order_id # id)
    /\ UNCHANGED <<catalog, next_order_id, notifdb, env, procs, history>>

\* --------------------------------------------------------- order listings
\* Query strings are sequences of tokens: a word of letters or a digit is one
\* token, so are the comma, the blank and the hash sign
Strings(alphabet, n) == UNION {[1..k -> alphabet] : k \in 0..n}

\* status_filter values: <<>> is the empty string or no parameter at all
StatusFilters == Strings({"pending", "confirmed", ",", " "}, MaxFilterLen)

\* search values: <<>> is the empty string or no parameter at all
Searches == Strings({"#", " ", "1", "2", "x"}, MaxSearchLen)

\* The value of the status column as a string
Str(status) == <<status>>

\* str.strip()
RECURSIVE Strip(_)
Strip(s) ==
  IF s # <<>> /\ Head(s) = " " THEN Strip(Tail(s))
  ELSE IF s # <<>> /\ s[Len(s)] = " " THEN Strip(SubSeq(s, 1, Len(s) - 1))
  ELSE s

\* str.split(','): the fields between the commas, empty ones included
RECURSIVE Split(_)
Split(s) ==
  IF \E i \in 1..Len(s) : s[i] = ","
  THEN LET i == CHOOSE i \in 1..Len(s) : s[i] = "," /\ \A j \in 1..(i - 1) : s[j] # ","
       IN <<SubSeq(s, 1, i - 1)>> \o Split(SubSeq(s, i + 1, Len(s)))
  ELSE <<s>>

\* OrderService.get_orders: Order.status == status_filter
StatusMatch(status_filter, status) == Str(status) = status_filter

\* UserStatusMatch that looks at the first status of the list only
UserStatusMatchFirstOnly(status_filter, status) ==
  Str(status) = Strip(Split(status_filter)[1])

\* get_user_orders: the filter is split at the commas, every part stripped;
\* one part is compared with ==, several with IN
UserStatusMatch(status_filter, status) ==
  LET statuses == [i \in 1..Len(Split(status_filter)) |->
                     Strip(Split(status_filter)[i])]
  IN IF Len(statuses) = 1
     THEN Str(status) = statuses[1]
     ELSE \E i \in 1..Len(statuses) : Str(status) = statuses[i]

\* int() of a string of decimal digits
RECURSIVE ParseInt(_)
ParseInt(s) ==
  IF s = <<>> THEN 0
  ELSE ParseInt(SubSeq(s, 1, Len(s) - 1)) * 10 + (IF s[Len(s)] = "1" THEN 1 ELSE 2)

\* SearchId that leaves the hash signs in the string
SearchIdKeepHash(search) ==
  LET search_id == Strip(search)
  IN IF search_id # <<>> /\ \A i \in 1..Len(search_id) : search_id[i] \in {"1", "2"}
     THEN ParseInt(search_id)
     ELSE -1

\* OrderService.get_orders: search.replace('#', '').strip(), int(...); the id
\* the query filters on, -1 after a ValueError
SearchId(search) ==
  LET search_id == Strip(SelectSeq(search, LAMBDA t : t # "#"))
  IN IF search_id # <<>> /\ \A i \in 1..Len(search_id) : search_id[i] \in {"1", "2"}
     THEN ParseInt(search_id)
     ELSE -1

\* OrderService.get_orders without a date: the ids of the rows the query
\* returns (skip 0, a limit above the number of rows)
GetOrdersRows(table, status_filter, search) ==
  {o \in DOMAIN table :
     /\ status_filter # <<>> => StatusMatch(status_filter, table[o].status)
     /\ search # <<>> => o = SearchId(search)}

\* routes/orders.py get_user_orders: the ids of the rows it returns; nothing
\* without a user id or device cookie ("")
GetUserOrdersRows(table, device_id, status_filter) ==
  IF device_id = "" THEN {}
  ELSE {o \in DOMAIN table :
          /\ table[o].device_id = device_id
          /\ status_filter # <<>> => UserStatusMatch(status_filter, table[o].status)}

\* routes/orders.py get_orders for an admin
GetOrders(w) ==
  /\ Idle(w)
  /\ \E status_filter \in StatusFilters, search \in Searches :
       Finish(w, [NoLoc EXCEPT !.op = "get_orders",
                               !.status_filter = status_filter,
                               !.search = search,
                               !.listing = GetOrdersRows(orders, status_filter, search)],
              200)
  /\ UNCHANGED <<catalog, orderdb, notifdb, env, tx, history>>

\* routes/orders.py get_user_orders
GetUserOrders(w) ==
  /\ Idle(w)
  /\ \E status_filter \in StatusFilters, device_id \in DeviceIds \cup {""} :
       Finish(w, [NoLoc EXCEPT !.op = "get_user_orders",
                               !.status_filter = status_filter,
                               !.device_id = device_id,
                               !.listing = GetUserOrdersRows(orders, device_id,
                                                             status_filter)],
              200)
  /\ UNCHANGED <<catalog, orderdb, notifdb, env, tx, history>>

\* ------------------------------------------------------------ admin gate
\* SECRET_KEY of auth/utils.py
JwtKey == "jwt_secret"

\* The admins table: one active admin and one that was deactivated
AdminTable == [username \in {"admin", "retired"} |->
                 [is_active |-> username = "admin"]]

\* No Authorization header (HTTPBearer with auto_error=False gives None)
NoCredentials == [present |-> FALSE, key |-> None, expired |-> FALSE, sub |-> None]

\* The bearer tokens a request may carry: signed with the server's key or
\* with another one, expired or not, with the claim sub of an active admin,
\* of an inactive admin, of nobody in the table, or without it
Credentials ==
  {NoCredentials}
  \cup [present : {TRUE}, key : {JwtKey, "jwt_other"}, expired : BOOLEAN,
        sub : {"admin", "retired", "ghost", None}]

\* auth/utils.py get_current_admin: the HTTP status it raises, or 0 when it
\* returns the admin row.  jwt.decode checks the signature and the expiry.
GetCurrentAdmin(credentials, admins) ==
  IF ~credentials.present THEN 403
  ELSE IF credentials.key # JwtKey \/ credentials.expired THEN 403
  ELSE IF credentials.sub = None THEN 401
  ELSE IF credentials.sub \notin DOMAIN admins THEN 401
  ELSE 0

\* GetCurrentActiveAdmin without the test of is_active
GetCurrentActiveAdminAnyAdmin(credentials, admins) ==
  GetCurrentAdmin(credentials, admins)

\* auth/utils.py get_current_active_admin, the dependency of the admin routes
GetCurrentActiveAdmin(credentials, admins) ==
  IF GetCurrentAdmin(credentials, admins) # 0
  THEN GetCurrentAdmin(credentials, admins)
  ELSE IF ~admins[credentials.sub].is_active THEN 400
  ELSE 0

\* What the request carried, recorded for the properties
CredentialClass(credentials) ==
  IF ~credentials.present THEN "missing"
  ELSE IF credentials.key # JwtKey THEN "invalid"
  ELSE IF credentials.expired THEN "expired"
  ELSE IF credentials.sub \notin {"admin", "retired"} THEN "unknown"
  ELSE IF credentials.sub = "retired" THEN "inactive"
  ELSE "good"

AdminOps == {"get_orders", "update_order", "delete_order",
             "create_product", "update_product", "delete_product"}

\* The tables as they are, with the answer code
Untouched(code) ==
  [products |-> products, next_product_id |-> next_product_id,
   orders |-> orders, order_items |-> order_items, code |-> code]

\* The body of an admin route once the dependency let the request in: every
\* outcome it can have, as the tables it leaves and its answer.  Ids one past
\* the bound name no row (404); the delete of a product that order items
\* reference is refused where the database enforces the foreign key.
AdminRouteOutcomes(op) ==
  IF op = "get_orders" THEN {Untouched(200)}
  ELSE IF op = "update_order"
  THEN {[Untouched(UpdateOrderRoute(orders, order_id, status).code) EXCEPT
           !.orders = UpdateOrderRoute(orders, order_id, status).orders] :
          order_id \in 1..(MaxOrders + 1), status \in StatusInputs \cup {""}}
  ELSE IF op = "delete_order"
  THEN {IF order_id \in DOMAIN orders
        THEN [Untouched(200) EXCEPT
                !.orders = [i \in DOMAIN orders \ {order_id} |-> orders[i]],
                !.order_items = SelectSeq(order_items,
                                          LAMBDA r : r.order_id # order_id)]
        ELSE Untouched(404) : order_id \in 1..(MaxOrders + 1)}
  ELSE IF op = "create_product"
  THEN {[Untouched(200) EXCEPT
           !.products = [i \in DOMAIN products \cup {next_product_id} |->
                           IF i = next_product_id
                           THEN [name |-> n, price |-> p, available |-> a]
                           ELSE products[i]],
           !.next_product_id = next_product_id + 1] :
          n \in {m \in Names : next_product_id <= MaxProducts},
          p \in Prices, a \in BOOLEAN}
  ELSE IF op = "update_product"
  THEN {IF id \in DOMAIN products
        THEN [Untouched(200) EXCEPT
                !.products = [products EXCEPT ![id] = ApplyUpdate(@, u)]]
        ELSE Untouched(404) : id \in 1..(MaxProducts + 1), u \in UpdateInputs}
  ELSE {IF id \in DOMAIN products
        THEN IF fk_enforced
                /\ \E i \in 1..Len(order_items) : order_items[i].product_id = id
             THEN Untouched(500)
             ELSE [Untouched(200) EXCEPT
                     !.products = [i \in DOMAIN products \ {id} |-> products[i]]]
        ELSE Untouched(404) : id \in 1..(MaxProducts + 1), fk_enforced \in BOOLEAN}

\* A request to one of the admin routes (routes/orders.py get_orders,
\* update_order, delete_order; routes/products.py create_product,
\* update_product, delete_product): the dependency get_current_active_admin
\* runs before the body and raises for a request it does not let in
AdminRequest(w) ==
  /\ Idle(w)
  /\ \E credentials \in Credentials, op \in AdminOps :
       LET gate == GetCurrentActiveAdmin(credentials, AdminTable)
           l == [NoLoc EXCEPT !.op = op, !.auth = CredentialClass(credentials)]
       IN IF gate # 0
          THEN /\ Finish(w, l, gate)
               /\ UNCHANGED <<catalog, orderdb>>
          ELSE \E r \in AdminRouteOutcomes(op) :
                 /\ products' = r.products
                 /\ next_product_id' = r.next_product_id
                 /\ orders' = r.orders
                 /\ order_items' = r.order_items
                 /\ UNCHANGED next_order_id
                 /\ Finish(w, l, r.code)
  /\ UNCHANGED <<notifdb, env, tx, history>>

\* ------------------------------------------------------------- payments
ServerKey == "sk_server"
PayOps == {"webhook", "verify"}

\* hmac.new(key, body, sha512).hexdigest(): a keyed digest, modelled as the
\* ideal one, which two different (key, body) pairs never share
Hmac(key, body) == <<key, body>>

Events == {"charge.success", "charge.failed"}
\* data.metadata.order_id of a provider event: 0 stands for a missing id,
\* MaxOrders + 1 is the id of no order
\* NotJson: a request body that request.json() cannot parse
NotJson == [event |-> "not json", order_id |-> 0]
Bodies == [event : Events, order_id : 0..(MaxOrders + 1)] \cup {NotJson}
\* x-paystack-signature: <<>> is a missing or empty header; then the digest of
\* this body under the server key, under another key, and of another body
Signatures(body) ==
  {<<>>, Hmac(ServerKey, body), Hmac("sk_other", body),
   Hmac(ServerKey, [body EXCEPT !.event = "charge.tampered"])}

\* WebhookGate that only looks for the presence of a signature
WebhookGateNoCompare(server_secret, signature, body) ==
  IF server_secret = "" THEN 500
  ELSE IF signature = <<>> THEN 400
  ELSE 0

\* routes/payment.py paystack_webhook, the checks before "Process event":
\* the HTTP status of the rejection, or 0 when the event is processed
WebhookGate(server_secret, signature, body) ==
  IF server_secret = "" THEN 500
  ELSE IF signature = <<>> THEN 400
  ELSE IF signature # Hmac(server_secret, body) THEN 400
  ELSE 0

\* ReadsPending without the test of the status
ReadsPendingAnyStatus(order_id) ==
  /\ order_id # 0
  /\ order_id \in DOMAIN orders

\* Both payment handlers: OrderService.get_order, then the test of the status
\* decides whether the handler goes on to update_order_status
ReadsPending(order_id) ==
  /\ order_id # 0
  /\ order_id \in DOMAIN orders
  /\ orders[order_id].status = "pending"

\* data.amount of PaymentInitializeRequest, in naira: the total of the seeded
\* order and a smaller amount
ClientAmounts == {1, 12000}

\* initialize_payment: amount_kobo = int(data.amount * 100)
InitializeAmount(amount, order) == amount * 100

\* routes/payment.py initialize_payment with
\* payment_service.initialize_transaction: 404 for an order that does not
\* exist, 400 when the key is not configured or the provider refuses, else
\* the provider holds a transaction of amount_kobo with metadata.order_id.
\* The provider's list is bounded by MaxTransactions.
InitializePayment(w) ==
  /\ Idle(w)
  /\ Cardinality(transactions) < MaxTransactions
  /\ \E order_id \in 1..(MaxOrders + 1), amount \in ClientAmounts,
        provider_ok \in BOOLEAN :
       LET l == [NoLoc EXCEPT !.op = "initialize", !.order_id = order_id,
                              !.amount = amount]
       IN IF order_id \notin DOMAIN orders
          THEN Finish(w, l, 404) /\ UNCHANGED transactions
          ELSE IF secret = "" \/ ~provider_ok
          THEN Finish(w, l, 400) /\ UNCHANGED transactions
          ELSE /\ transactions' = transactions \cup
                    {[order_id |-> order_id,
                      amount |-> InitializeAmount(amount, orders[order_id])]}
               /\ Finish(w, l, 200)
  /\ UNCHANGED <<catalog, orderdb, notifdb, firebase, secret, uploads, tx, history>>

\* data.amount of a provider event or verify answer that names order_id: the
\* amount of a transaction initialized for that order.  A charge that was not
\* opened through initialize_payment is taken to be of the order's total (0
\* when it names no order).
ChargedAmounts(order_id) ==
  IF \E t \in transactions : t.order_id = order_id
  THEN {t.amount : t \in {u \in transactions : u.order_id = order_id}}
  ELSE IF order_id \in DOMAIN orders
  THEN {orders[order_id].total_amount * 100}
  ELSE {0}

\* A payment handler may start: serial says whether the provider's calls are
\* delivered one after the other
PayStart(w, serial) ==
  /\ Idle(w)
  /\ serial => \A v \in Workers : pc[v] = "idle"

\* AfterRead that refuses a successful charge without an order id with 400
AfterReadRequireOrderId(w, l, success, order_id) ==
  IF success /\ order_id = 0
  THEN Finish(w, [l EXCEPT !.order_id = order_id], 400)
  ELSE IF success /\ ReadsPending(order_id)
  THEN /\ pc' = [pc EXCEPT ![w] = "pay_update"]
       /\ loc' = [loc EXCEPT ![w] = [l EXCEPT !.order_id = order_id,
                                              !.status_read = "pending"]]
  ELSE Finish(w, [l EXCEPT !.order_id = order_id,
                           !.status_read = IF success THEN StatusRead(order_id)
                                           ELSE None], 200)

\* The handler from the test of the event on: a successful charge whose order
\* is pending goes on to the update, everything else is answered 200 (also a
\* charge without an order id, or for an order that does not exist)
AfterRead(w, l, success, order_id) ==
  IF success /\ ReadsPending(order_id)
  THEN /\ pc' = [pc EXCEPT ![w] = "pay_update"]
       /\ loc' = [loc EXCEPT ![w] = [l EXCEPT !.order_id = order_id,
                                              !.status_read = "pending"]]
  ELSE Finish(w, [l EXCEPT !.order_id = order_id,
                           !.status_read = IF success THEN StatusRead(order_id)
                                           ELSE None], 200)

\* routes/payment.py paystack_webhook up to the read of the order; a body
\* that passed the signature test and is not JSON raises inside the try
\* block (500)
WebhookReceive(w, serial) ==
  /\ PayStart(w, serial)
  /\ \E body \in Bodies :
       \E signature \in Signatures(body), amount \in ChargedAmounts(body.order_id) :
         LET gate == WebhookGate(secret, signature, body)
             good == secret # "" /\ signature = Hmac(secret, body)
             l == [NoLoc EXCEPT !.op = "webhook",
                                !.success = (body.event = "charge.success"),
                                !.auth = IF good THEN "good" ELSE "bad",
                                !.event = body.event, !.amount = amount]
         IN IF gate # 0
            THEN Finish(w, [l EXCEPT !.order_id = body.order_id], gate)
            ELSE IF body = NotJson
            THEN Finish(w, l, 500)
            ELSE AfterRead(w, l, body.event = "charge.success", body.order_id)
  /\ UNCHANGED <<catalog, orderdb, notifdb, env, tx, history>>

\* payment_service.verify_transaction as the provider answers it: status False
\* (also when the key is not configured), or data.status with the order id
VerifyAnswers == [status : BOOLEAN, data_status : {"success", "failed"},
                  order_id : 0..(MaxOrders + 1)]

\* routes/payment.py verify_payment up to the read of the order
VerifyPayment(w, serial) ==
  /\ PayStart(w, serial)
  /\ \E response \in VerifyAnswers :
     \E amount \in ChargedAmounts(response.order_id) :
       /\ secret = "" => ~response.status
       /\ AfterRead(w, [NoLoc EXCEPT !.op = "verify",
                                      !.amount = amount,
                                      !.success = (response.status /\
                                                   response.data_status = "success")],
                    response.status /\ response.data_status = "success",
                    response.order_id)
  /\ UNCHANGED <<catalog, orderdb, notifdb, env, tx, history>>

\* OrderService.update_order_status(db, order, "confirmed") of both payment
\* handlers.  The UPDATE of a row another request deleted meanwhile matches
\* no row and raises: the handler answers 500.
PayUpdate(w) ==
  /\ pc[w] = "pay_update"
  /\ Quiet
  /\ LET id == loc[w].order_id
     IN IF id \in DOMAIN orders
        THEN /\ orders' = [orders EXCEPT ![id] = SetStatus(@, "confirmed")]
             /\ confirms' = [confirms EXCEPT ![id] = @ + 1]
             /\ pc' = [pc EXCEPT ![w] = "pay_notify"]
             /\ UNCHANGED loc
        ELSE /\ Finish(w, loc[w], 500)
             /\ UNCHANGED <<orders, confirms>>
  /\ UNCHANGED <<catalog, order_items, next_order_id, notifdb, env, tx,
                 expected, pay_notifies>>

\* Both payment handlers after the status update: the admin notification in
\* try/except when the push SDK was imported, then the 200 answer
PayNotify(w) ==
  /\ pc[w] = "pay_notify"
  /\ Quiet
  /\ IF firebase
     THEN /\ SendNotificationToAdmin(w, loc[w])
          /\ pay_notifies' = [pay_notifies EXCEPT ![loc[w].order_id] = @ + 1]
     ELSE /\ loc' = [loc EXCEPT ![w] = Returned(loc[w])]
          /\ UNCHANGED <<notifdb, pay_notifies>>
  /\ pc' = [pc EXCEPT ![w] = "done"]
  /\ UNCHANGED <<catalog, orderdb, env, tx, expected, confirms>>

\* ---------------------------------------------------------- specifications
\* One admin device registered its push token
AdminDevice == [id |-> 1, fcm_token |-> "t1", device_id |-> "d1", is_admin |-> TRUE]

InitCommon ==
  /\ notifications = <<>>
  /\ recipients = <<>>
  /\ device_tokens = {AdminDevice}
  /\ next_token_id = 2
  /\ uploads = 0
  /\ transactions = {}
  /\ firebase \in BOOLEAN
  /\ pc = [w \in Workers |-> "idle"]
  /\ loc = [w \in Workers |-> NoLoc]
  /\ tx = [w \in Workers |-> NoTx]
  /\ confirms = [o \in OrderIds |-> 0]
  /\ pay_notifies = [o \in OrderIds |-> 0]

\* The empty database of a fresh deployment, the payment key configured
Init ==
  /\ InitCommon
  /\ products = <<>>
  /\ next_product_id = 1
  /\ orders = <<>>
  /\ order_items = <<>>
  /\ next_order_id = 1
  /\ expected = <<>>
  /\ secret = ServerKey

Next ==
  \/ CreateProduct
  \/ UpdateProduct
  \/ DeleteProduct
  \/ UpdateOrder
  \/ DeleteOrder
  \/ \E w \in Workers : CreateOrderBegin(w, "create_order")
  \/ \E w \in Workers : PriceItem(w)
  \/ \E w \in Workers : PriceEnd(w)
  \/ \E w \in Workers : OrderFlush(w)
  \/ \E w \in Workers : OrderCommit(w)
  \/ \E w \in Workers : OrderNotify(w)
  \/ \E w \in Workers : Respond(w)

Spec == Init /\ [][Next]_vars

\* A catalog of two products as the admin created them
SeedCatalog ==
  <<[name |-> "catfish", price |-> 3000, available |-> TRUE],
    [name |-> "tilapia", price |-> 3000, available |-> TRUE]>>

\* The same catalog after the admin set the second price to 0
AppCatalog ==
  <<[name |-> "catfish", price |-> 3000, available |-> TRUE],
    [name |-> "tilapia", price |-> 0, available |-> TRUE]>>

\* The rows create_order committed for [{1, 2}, {2, 2}] on SeedCatalog
SeedItems ==
  <<[order_id |-> 1, product_id |-> 1, product_name |-> "catfish",
     product_price |-> 3000, quantity |-> 2, subtotal |-> 6000],
    [order_id |-> 1, product_id |-> 2, product_name |-> "tilapia",
     product_price |-> 3000, quantity |-> 2, subtotal |-> 6000]>>

\* The single-file application (app.py) on a database that holds the catalog
InitApp ==
  /\ InitCommon
  /\ products = AppCatalog
  /\ next_product_id = 3
  /\ orders = <<>>
  /\ order_items = <<>>
  /\ next_order_id = 1
  /\ expected = <<>>
  /\ secret = ServerKey

NextApp ==
  \/ \E w \in Workers : CreateOrderBegin(w, "app_create_order")
  \/ \E w \in Workers : PriceItem(w)
  \/ \E w \in Workers : PriceEnd(w)
  \/ \E w \in Workers : OrderFlush(w)
  \/ \E w \in Workers : OrderCommit(w)
  \/ \E w \in Workers : OrderNotify(w)
  \/ \E w \in Workers : Respond(w)
  \/ UpdateOrder
  \/ DeleteOrder

SpecApp == InitApp /\ [][NextApp]_vars

\* A database in which create_order committed one order, still pending; the
\* payment key may be missing from the environment
InitPay ==
  /\ InitCommon
  /\ products = SeedCatalog
  /\ next_product_id = 3
  /\ orders = <<[total_amount |-> 12000, status |-> "pending"]>>
  /\ order_items = SeedItems
  /\ next_order_id = 2
  /\ expected = <<StripOrderId(SeedItems)>>
  /\ secret \in {"", ServerKey}

\* The provider's calls reach different server processes at the same time
NextPay ==
  \/ \E w \in Workers : WebhookReceive(w, FALSE)
  \/ \E w \in Workers : VerifyPayment(w, FALSE)
  \/ \E w \in Workers : PayUpdate(w)
  \/ \E w \in Workers : PayNotify(w)
  \/ \E w \in Workers : Respond(w)

SpecPay == InitPay /\ [][NextPay]_vars

\* The same database, the order in any status a payment event can find it in
InitSerial ==
  /\ InitCommon
  /\ products = SeedCatalog
  /\ next_product_id = 3
  /\ \E status \in {"pending", "confirmed", "cancelled"} :
       orders = <<[total_amount |-> 12000, status |-> status]>>
  /\ order_items = SeedItems
  /\ next_order_id = 2
  /\ expected = <<StripOrderId(SeedItems)>>
  /\ secret = ServerKey

\* The provider's calls are delivered one after the other
NextSerial ==
  \/ \E w \in Workers : WebhookReceive(w, TRUE)
  \/ \E w \in Workers : VerifyPayment(w, TRUE)
  \/ \E w \in Workers : PayUpdate(w)
  \/ \E w \in Workers : PayNotify(w)
  \/ \E w \in Workers : Respond(w)

SpecSerial == InitSerial /\ [][NextSerial]_vars

\* Everything that runs after an order was created, against that order
NextFrame ==
  \/ UpdateProduct
  \/ DeleteProduct
  \/ UpdateOrder
  \/ DeleteOrder
  \/ \E w \in Workers : WebhookReceive(w, FALSE)
  \/ \E w \in Workers : VerifyPayment(w, FALSE)
  \/ \E w \in Workers : PayUpdate(w)
  \/ \E w \in Workers : PayNotify(w)
  \/ \E w \in Workers : Respond(w)

SpecFrame == InitPay /\ [][NextFrame]_vars

\* create_order, the admin's update_order and the payment webhook against a
\* database that holds the catalog and no order yet
InitStatus ==
  /\ InitCommon
  /\ products = SeedCatalog
  /\ next_product_id = 3
  /\ orders = <<>>
  /\ order_items = <<>>
  /\ next_order_id = 1
  /\ expected = <<>>
  /\ secret = ServerKey

NextStatus ==
  \/ \E w \in Workers : CreateOrderBegin(w, "create_order")
  \/ \E w \in Workers : PriceItem(w)
  \/ \E w \in Workers : PriceEnd(w)
  \/ \E w \in Workers : OrderFlush(w)
  \/ \E w \in Workers : OrderCommit(w)
  \/ \E w \in Workers : OrderNotify(w)
  \/ \E w \in Workers : UpdateOrderRequest(w)
  \/ \E w \in Workers : WebhookReceive(w, FALSE)
  \/ \E w \in Workers : PayUpdate(w)
  \/ \E w \in Workers : PayNotify(w)
  \/ \E w \in Workers : Respond(w)

SpecStatus == InitStatus /\ [][NextStatus]_vars

\* A catalog whose second product costs more than half the order ceiling
CheckoutCatalog ==
  <<[name |-> "catfish", price |-> 3000, available |-> TRUE],
    [name |-> "tilapia", price |-> 6000000, available |-> TRUE]>>

\* create_order with and without a payment proof on that catalog
InitCheckout ==
  /\ InitCommon
  /\ products = CheckoutCatalog
  /\ next_product_id = 3
  /\ orders = <<>>
  /\ order_items = <<>>
  /\ next_order_id = 1
  /\ expected = <<>>
  /\ secret = ServerKey

NextCheckout ==
  \/ \E w \in Workers : CreateOrderBegin(w, "create_order")
  \/ \E w \in Workers : CreateOrderWithProof(w)
  \/ \E w \in Workers : PriceItem(w)
  \/ \E w \in Workers : PriceEnd(w)
  \/ \E w \in Workers : OrderFlush(w)
  \/ \E w \in Workers : OrderCommit(w)
  \/ \E w \in Workers : OrderNotify(w)
  \/ \E w \in Workers : Respond(w)

SpecCheckout == InitCheckout /\ [][NextCheckout]_vars

\* The registration routes alone, requests overlapping: the admin device is
\* registered, token t2 is not
InitRegister ==
  /\ InitCommon
  /\ products = SeedCatalog
  /\ next_product_id = 3
  /\ orders = <<>>
  /\ order_items = <<>>
  /\ next_order_id = 1
  /\ expected = <<>>
  /\ secret = ServerKey

NextRegister ==
  \/ \E w \in Workers : RegisterQuery(w, FALSE)
  \/ \E w \in Workers : RegisterCommit(w)
  \/ \E w \in Workers : RegisterRetry(w)
  \/ \E w \in Workers : Respond(w)

SpecRegister == InitRegister /\ [][NextRegister]_vars

\* The registration routes, one request after the other
NextRegisterSerial ==
  \/ \E w \in Workers : RegisterQuery(w, TRUE)
  \/ \E w \in Workers : RegisterCommit(w)
  \/ \E w \in Workers : Respond(w)

SpecRegisterSerial == InitRegister /\ [][NextRegisterSerial]_vars

\* A customer device registered its push token
CustomerDevice == [id |-> 2, fcm_token |-> "t2", device_id |-> "d2", is_admin |-> FALSE]

\* Two registered devices, one of them the admin's, and a pending order
InitNotify ==
  /\ notifications = <<>>
  /\ recipients = <<>>
  /\ device_tokens = {AdminDevice, CustomerDevice}
  /\ next_token_id = 3
  /\ uploads = 0
  /\ transactions = {}
  /\ firebase \in BOOLEAN
  /\ pc = [w \in Workers |-> "idle"]
  /\ loc = [w \in Workers |-> NoLoc]
  /\ tx = [w \in Workers |-> NoTx]
  /\ confirms = [o \in OrderIds |-> 0]
  /\ pay_notifies = [o \in OrderIds |-> 0]
  /\ products = SeedCatalog
  /\ next_product_id = 3
  /\ orders = <<[total_amount |-> 12000, status |-> "pending"]>>
  /\ order_items = SeedItems
  /\ next_order_id = 2
  /\ expected = <<StripOrderId(SeedItems)>>
  /\ secret = ServerKey

\* Sends to all devices, sends to the admin devices (through the payment
\* webhook) and unsubscribes
NextNotify ==
  \/ \E w \in Workers : SendToAll(w)
  \/ \E w \in Workers : UnsubscribeToken(w)
  \/ \E w \in Workers : WebhookReceive(w, TRUE)
  \/ \E w \in Workers : PayUpdate(w)
  \/ \E w \in Workers : PayNotify(w)
  \/ \E w \in Workers : Respond(w)

SpecNotify == InitNotify /\ [][NextNotify]_vars

\* A second token, registered by the admin's device or by another one
SecondToken(device_id) ==
  [id |-> 2, fcm_token |-> "t2", device_id |-> device_id, is_admin |-> FALSE]

\* Two registered tokens and no notification sent yet
InitClick ==
  /\ notifications = <<>>
  /\ recipients = <<>>
  /\ \E device_id \in DeviceIds :
       device_tokens = {AdminDevice, SecondToken(device_id)}
  /\ next_token_id = 3
  /\ uploads = 0
  /\ transactions = {}
  /\ firebase = TRUE
  /\ pc = [w \in Workers |-> "idle"]
  /\ loc = [w \in Workers |-> NoLoc]
  /\ tx = [w \in Workers |-> NoTx]
  /\ confirms = [o \in OrderIds |-> 0]
  /\ pay_notifies = [o \in OrderIds |-> 0]
  /\ products = SeedCatalog
  /\ next_product_id = 3
  /\ orders = <<>>
  /\ order_items = <<>>
  /\ next_order_id = 1
  /\ expected = <<>>
  /\ secret = ServerKey

\* Sends to all devices and clicks, the click requests overlapping
NextClick ==
  \/ \E w \in Workers : SendToAll(w)
  \/ \E w \in Workers : ClickQuery(w, FALSE)
  \/ \E w \in Workers : ClickCommit(w)
  \/ \E w \in Workers : Respond(w)

SpecClick == InitClick /\ [][NextClick]_vars

\* The same, one request after the other
NextClickSerial ==
  \/ \E w \in Workers : SendToAll(w)
  \/ \E w \in Workers : ClickQuery(w, TRUE)
  \/ \E w \in Workers : ClickCommit(w)
  \/ \E w \in Workers : Respond(w)

SpecClickSerial == InitClick /\ [][NextClickSerial]_vars

\* A catalog of one product and one pending order of it
InitAdmin ==
  /\ InitCommon
  /\ products = <<SeedCatalog[1]>>
  /\ next_product_id = 2
  /\ orders = <<[total_amount |-> 6000, status |-> "pending"]>>
  /\ order_items = <<SeedItems[1]>>
  /\ next_order_id = 2
  /\ expected = <<StripOrderId(<<SeedItems[1]>>)>>
  /\ secret = ServerKey

\* Requests to the admin routes with every kind of credentials
NextAdmin ==
  \/ \E w \in Workers : AdminRequest(w)
  \/ \E w \in Workers : Respond(w)

SpecAdmin == InitAdmin /\ [][NextAdmin]_vars

\* Three orders of one catfish line each, two placed by device d1
ListOrders ==
  <<[total_amount |-> 6000, status |-> "pending", device_id |-> "d1"],
    [total_amount |-> 6000, status |-> "confirmed", device_id |-> "d1"],
    [total_amount |-> 6000, status |-> "completed", device_id |-> "d2"]>>

ListItems == [o \in 1..3 |-> [SeedItems[1] EXCEPT !.order_id = o]]

InitList ==
  /\ InitCommon
  /\ products = SeedCatalog
  /\ next_product_id = 3
  /\ orders = ListOrders
  /\ order_items = ListItems
  /\ next_order_id = 4
  /\ expected = [o \in 1..3 |-> StripOrderId(<<SeedItems[1]>>)]
  /\ secret = ServerKey

\* The two order listings
NextList ==
  \/ \E w \in Workers : GetOrders(w)
  \/ \E w \in Workers : GetUserOrders(w)
  \/ \E w \in Workers : Respond(w)

SpecList == InitList /\ [][NextList]_vars

\* Payments initialized by clients, then reported by the provider, against
\* the pending order of InitPay
NextCharge ==
  \/ \E w \in Workers : InitializePayment(w)
  \/ \E w \in Workers : WebhookReceive(w, FALSE)
  \/ \E w \in Workers : VerifyPayment(w, FALSE)
  \/ \E w \in Workers : PayUpdate(w)
  \/ \E w \in Workers : PayNotify(w)
  \/ \E w \in Workers : Respond(w)

SpecCharge == InitPay /\ [][NextCharge]_vars

\* The registration routes and the unsubscribe route, requests overlapping
NextRegisterUnsubscribe ==
  \/ \E w \in Workers : RegisterQuery(w, FALSE)
  \/ \E w \in Workers : RegisterCommit(w)
  \/ \E w \in Workers : RegisterRetry(w)
  \/ \E w \in Workers : UnsubscribeToken(w)
  \/ \E w \in Workers : Respond(w)

SpecRegisterUnsubscribe == InitRegister /\ [][NextRegisterUnsubscribe]_vars

\* ----------------------------------------------------------------- claims
\* C1: in every state, every committed order has, for each of its items,
\* subtotal = product_price * quantity, and total_amount = the sum of the
\* subtotals of its items.
C1_TotalIsSumOfSubtotals ==
  \A o \in DOMAIN orders :
    LET rows == ItemsOf(order_items, o)
    IN /\ \A i \in 1..Len(rows) :
            rows[i].subtotal = rows[i].product_price * rows[i].quantity
       /\ orders[o].total_amount = SumSubtotals(rows)

\* An order of two items is committed
C1_Witness ==
  \E o \in DOMAIN orders :
    /\ Len(ItemsOf(order_items, o)) = 2
    /\ orders[o].total_amount = 12000

\* C2: in every committed state, an order id that create_order drew is either
\* in orders together with exactly the items computed for it, or it has no
\* row in orders and none in order_items; no item row names an order that is
\* not in orders.
C2_OrderAndItemsAtomic ==
  /\ \A id \in DOMAIN expected :
       IF id \in DOMAIN orders
       THEN StripOrderId(ItemsOf(order_items, id)) = expected[id]
       ELSE ItemsOf(order_items, id) = <<>>
  /\ \A i \in 1..Len(order_items) : order_items[i].order_id \in DOMAIN orders

\* create_order failed after the order row was flushed (500 with an order id
\* drawn) and neither the order nor an item of it is in the tables
C2_Witness ==
  \E w \in Workers :
    /\ pc[w] = "done"
    /\ loc[w].op = "create_order"
    /\ loc[w].result = 500
    /\ loc[w].order_id # 0
    /\ loc[w].accepted = 2
    /\ loc[w].order_id \notin DOMAIN orders
    /\ ItemsOf(order_items, loc[w].order_id) = <<>>

\* C3: the step in which create_order meets an item that names a missing or an
\* unavailable product ends the request with 400 or 404 and leaves orders and
\* order_items as they were; the request has flushed and committed nothing.
C3_BadProductRejected ==
  [][\A w \in Workers :
       (loc'[w].op = "create_order" /\ loc'[w].bad_product /\ ~loc[w].bad_product)
       => /\ pc'[w] = "done"
          /\ loc'[w].result \in {400, 404}
          /\ ~loc'[w].committed
          /\ loc'[w].order_id = 0
          /\ tx'[w] = NoTx
          /\ orders' = orders
          /\ order_items' = order_items]_vars

\* A request rejected with 404 at its second item, the first one accepted
C3_Witness ==
  \E w \in Workers :
    /\ pc[w] = "done"
    /\ loc[w].op = "create_order"
    /\ loc[w].bad_product
    /\ loc[w].accepted = 1
    /\ loc[w].result = 404
    /\ orders = <<>>
    /\ order_items = <<>>

\* C4: a create_order request with an item whose quantity is outside
\* 1..MaxQuantity is rejected with nothing persisted, and every persisted
\* item has a quantity in 1..MaxQuantity.
C4_QuantityInRange ==
  /\ \A i \in 1..Len(order_items) :
       order_items[i].quantity >= 1 /\ order_items[i].quantity <= MaxQuantity
  /\ \A w \in Workers :
       (loc[w].op \in CreateOps /\ loc[w].bad_quantity)
       => pc[w] = "done" /\ loc[w].result = 400 /\ ~loc[w].committed

\* C5: the step in which the webhook receives a request whose signature is
\* missing or is not the digest of the body under the server secret, or that
\* arrives when no secret is configured, answers 400 or 500 at once and
\* changes no table: no order status, no notification.
C5_BadSignatureRejected ==
  [][\A w \in Workers :
       (pc[w] = "idle" /\ loc'[w].op = "webhook" /\ loc'[w].auth = "bad")
       => /\ pc'[w] = "done"
          /\ loc'[w].result \in {400, 500}
          /\ ~loc'[w].attempted
          /\ orders' = orders
          /\ order_items' = order_items
          /\ notifications' = notifications
          /\ recipients' = recipients
          /\ device_tokens' = device_tokens
          /\ confirms' = confirms
          /\ pay_notifies' = pay_notifies]_vars

\* A charge.success for the pending order, signed with another key, was
\* answered 400 and the order is still pending
C5_Witness ==
  \E w \in Workers :
    /\ pc[w] = "done"
    /\ loc[w].op = "webhook"
    /\ loc[w].auth = "bad"
    /\ loc[w].success
    /\ secret # ""
    /\ loc[w].result = 400
    /\ loc[w].order_id \in DOMAIN orders
    /\ orders[loc[w].order_id].status = "pending"
    /\ confirms[loc[w].order_id] = 0

\* A step of a payment handler (webhook or verify)
PayStep ==
  \E w \in Workers :
    \/ pc[w] = "idle" /\ loc'[w].op \in PayOps
    \/ pc[w] \in {"pay_update", "pay_notify"} /\ pc'[w] # pc[w]

\* C6: with the provider's calls delivered one after the other, a payment
\* handler changes an order only if its status is pending, and then only the
\* status, to confirmed; an order is confirmed by a payment event at most
\* once and the admin is notified for it at most once, so a success event
\* delivered again for a confirmed order changes nothing and sends nothing.
C6_ConfirmOnlyPendingOnce ==
  /\ [](\A o \in OrderIds : confirms[o] <= 1 /\ pay_notifies[o] <= confirms[o])
  /\ [][PayStep =>
          /\ order_items' = order_items
          /\ DOMAIN orders' = DOMAIN orders
          /\ \A o \in DOMAIN orders :
               orders'[o] # orders[o]
               => /\ orders[o].status = "pending"
                  /\ orders'[o] = [orders[o] EXCEPT !.status = "confirmed"]]_vars

\* A success event found the order already confirmed by an earlier event:
\* it wrote nothing and sent nothing
C6_Witness ==
  \E w \in Workers :
    /\ pc[w] = "done"
    /\ loc[w].op \in PayOps
    /\ loc[w].success
    /\ loc[w].status_read = "confirmed"
    /\ ~loc[w].attempted
    /\ confirms[loc[w].order_id] = 1
    /\ pay_notifies[loc[w].order_id] = 1
    /\ orders[loc[w].order_id].status = "confirmed"

\* C7: whatever the interleaving of the payment handlers, an order is moved
\* from pending to confirmed once and the admin is notified for it at most
\* once.
C7_ConfirmedExactlyOnce ==
  \A o \in OrderIds : confirms[o] <= 1 /\ pay_notifies[o] <= 1

C9_AlwaysNotified ==
  \A w \in Workers :
    (pc[w] = "done" /\ loc[w].op = "create_order" /\ loc[w].committed)
    => loc[w].attempted

\* C9 as amended: a create_order that committed has called the dispatcher
\* when it returns if and only if its payment method is transfer and the push
\* SDK was imported.
C9_NotifiedForTransfer ==
  \A w \in Workers :
    (pc[w] = "done" /\ loc[w].op = "create_order" /\ loc[w].committed)
    => (loc[w].attempted <=> (loc[w].method = "transfer" /\ firebase))

\* A committed transfer order whose handler called the dispatcher
C9_Witness ==
  \E w \in Workers :
    /\ pc[w] = "done"
    /\ loc[w].op = "create_order"
    /\ loc[w].committed
    /\ loc[w].method = "transfer"
    /\ loc[w].attempted
    /\ loc[w].notify = "committed"

\* C10: no step changes the total_amount of an order that stays in the table,
\* nor the product_name, product_price, quantity or subtotal of its items.
C10_OrderFrozen ==
  [][\A o \in DOMAIN orders \cap DOMAIN orders' :
       /\ orders'[o].total_amount = orders[o].total_amount
       /\ ItemsOf(order_items', o) = ItemsOf(order_items, o)]_vars

\* The order is confirmed by a payment, and the product of its first item has
\* since been renamed, repriced and withdrawn
C10_Witness ==
  /\ 1 \in DOMAIN orders
  /\ orders[1].status = "confirmed"
  /\ confirms[1] = 1
  /\ 1 \in DOMAIN products
  /\ products[1].name # order_items[1].product_name
  /\ products[1].price # order_items[1].product_price
  /\ ~products[1].available
  /\ 2 \notin DOMAIN products

\* The statuses of the spec's lifecycle and its transitions
Lifecycle ==
  {<<"pending", "confirmed">>, <<"confirmed", "completed">>, <<"pending", "cancelled">>}

C12_UpdateOverwrites ==
  [][\A w \in Workers :
       (pc[w] = "idle" /\ loc'[w].op = "update_order")
       => /\ order_items' = order_items
          /\ DOMAIN orders' = DOMAIN orders
          /\ IF loc'[w].order_id \notin DOMAIN orders
             THEN loc'[w].result = 404 /\ orders' = orders
             ELSE /\ loc'[w].result = 200
                  /\ orders' = [orders EXCEPT ![loc'[w].order_id].status =
                                                 loc'[w].status]]_vars

\* C12 as amended: the same, except that an empty status is answered 200 with
\* the order left as it is; every non-empty string overwrites the status.
C12_UpdateOverwritesNonEmpty ==
  [][\A w \in Workers :
       (pc[w] = "idle" /\ loc'[w].op = "update_order")
       => /\ order_items' = order_items
          /\ DOMAIN orders' = DOMAIN orders
          /\ IF loc'[w].order_id \notin DOMAIN orders
             THEN loc'[w].result = 404 /\ orders' = orders
             ELSE /\ loc'[w].result = 200
                  /\ orders' = IF loc'[w].status = "" THEN orders
                               ELSE [orders EXCEPT ![loc'[w].order_id].status =
                                                     loc'[w].status]]_vars

\* A completed order was given the status "shipped", a string outside the
\* lifecycle, and holds it
C12_Witness ==
  \E w \in Workers :
    /\ pc[w] = "done"
    /\ loc[w].op = "update_order"
    /\ loc[w].status = "shipped"
    /\ loc[w].status_read = "completed"
    /\ loc[w].result = 200
    /\ orders[loc[w].order_id].status = "shipped"

\* C13: a create_order handler goes on to persist only with a total above 0
\* and at most MaxTotal; a request that leaves the pricing with an answer is
\* answered 400 or 404 and has flushed and committed nothing; every order in
\* the table, and every order row flushed, has 0 < total_amount <= MaxTotal.
C13_TotalInRange ==
  /\ [](/\ \A o \in DOMAIN orders :
             orders[o].total_amount > 0 /\ orders[o].total_amount <= MaxTotal
        /\ \A w \in Workers :
             /\ \A o \in DOMAIN tx[w].orders :
                  /\ tx[w].orders[o].total_amount > 0
                  /\ tx[w].orders[o].total_amount <= MaxTotal
             /\ (loc[w].op = "create_order" /\ pc[w] \in {"flush", "commit", "notify"})
                => (loc[w].total_amount > 0 /\ loc[w].total_amount <= MaxTotal))
  /\ [][\A w \in Workers :
          (loc[w].op = "create_order" /\ pc[w] = "price" /\ pc'[w] = "done")
          => /\ loc'[w].result \in {400, 404}
             /\ ~loc'[w].committed
             /\ loc'[w].order_id = 0
             /\ tx'[w] = NoTx
             /\ orders' = orders
             /\ order_items' = order_items]_vars

\* A request whose item was accepted (2 x 6,000,000) was answered 400 for its
\* total above the ceiling; nothing is in the tables
C13_Witness ==
  \E w \in Workers :
    /\ pc[w] = "done"
    /\ loc[w].op = "create_order"
    /\ loc[w].accepted = 1
    /\ ~loc[w].bad_product
    /\ ~loc[w].bad_quantity
    /\ loc[w].result = 400
    /\ orders = <<>>
    /\ order_items = <<>>

\* C14: the step in which create_order receives a request whose payment
\* proof is larger than MaxFileSize, empty, or of a type that is not allowed
\* answers 400 and writes nothing: no file, no order row, no item row.
C14_BadProofRejected ==
  [][\A w \in Workers :
       (pc[w] = "idle" /\ loc'[w].op = "create_order" /\ loc'[w].proof = "bad")
       => /\ pc'[w] = "done"
          /\ loc'[w].result = 400
          /\ ~loc'[w].proof_saved
          /\ uploads' = uploads
          /\ orders' = orders
          /\ order_items' = order_items
          /\ tx'[w] = NoTx]_vars

\* A request with a bad payment proof was answered 400; no file is stored
\* and no order exists
C14_Witness ==
  \E w \in Workers :
    /\ pc[w] = "done"
    /\ loc[w].op = "create_order"
    /\ loc[w].proof = "bad"
    /\ loc[w].result = 400
    /\ uploads = 0
    /\ orders = <<>>

\* C15: a create_order request that was answered 400 or 404 has written
\* nothing: it committed no order, flushed no row and stored no payment
\* proof.
C15_RejectedWroteNothing ==
  \A w \in Workers :
    (pc[w] = "done" /\ loc[w].op = "create_order" /\ loc[w].result \in {400, 404})
    => /\ ~loc[w].committed
       /\ loc[w].order_id = 0
       /\ tx[w] = NoTx
       /\ ~loc[w].proof_saved

\* The rows of device_tokens that hold token
RowsOf(table, token) == {r \in table : r.fcm_token = token}

\* C16: with one registration after the other, the step in which
\* register_token commits leaves exactly one row for its token, and that row
\* holds the device id the call was given; the other rows are untouched.
C16_OneRowLatestDevice ==
  [][\A w \in Workers :
       (pc[w] = "reg_commit" /\ pc'[w] = "done")
       => /\ loc'[w].result = 200
          /\ Cardinality(RowsOf(device_tokens', loc[w].token)) = 1
          /\ \A r \in RowsOf(device_tokens', loc[w].token) :
               r.device_id = loc[w].device_id
          /\ \A r \in device_tokens :
               r.fcm_token # loc[w].token => r \in device_tokens']_vars

\* Token t1, registered with device d1, was registered again with device d2:
\* one row holds t1, with d2
C16_Witness ==
  \E w \in Workers :
    /\ pc[w] = "done"
    /\ loc[w].op = "register"
    /\ loc[w].token = "t1"
    /\ loc[w].found.id # 0
    /\ loc[w].found.device_id = "d1"
    /\ loc[w].device_id = "d2"
    /\ RowsOf(device_tokens, "t1") =
         {[id |-> loc[w].found.id, fcm_token |-> "t1", device_id |-> "d2",
           is_admin |-> TRUE]}

\* C17: with registrations overlapping in any way, no two rows of
\* device_tokens share a token; every register_token call is answered 200,
\* and when it is answered exactly one row holds its token.
C17_UniqueUnderRace ==
  /\ [](\A r1 \in device_tokens : \A r2 \in device_tokens :
          r1.fcm_token = r2.fcm_token => r1 = r2)
  /\ [](\A w \in Workers :
          (pc[w] = "done" /\ loc[w].op = "register")
          => /\ loc[w].result = 200
             /\ Cardinality(RowsOf(device_tokens, loc[w].token)) = 1)

\* Two calls registered the new token t2 at the same time: this one lost the
\* INSERT, retried as an update and was answered 200; one row holds t2, with
\* the id the winner's INSERT drew and the device id of this call
C17_Witness ==
  \E w \in Workers :
    /\ pc[w] = "done"
    /\ loc[w].op = "register"
    /\ loc[w].token = "t2"
    /\ loc[w].retried
    /\ loc[w].result = 200
    /\ loc[w].device_id = "d2"
    /\ \E r \in device_tokens :
         r.fcm_token = "t2" /\ r.device_id = "d2" /\ RowsOf(device_tokens, "t2") = {r}

RecipientsOf(rows, n) == {i \in 1..Len(rows) : rows[i].notification_id = n}

\* A step in which worker w's send committed: send_to_all, or the admin
\* notification of a payment handler
SendStep(w) ==
  /\ pc[w] \in {"idle", "pay_notify"}
  /\ pc'[w] = "done"
  /\ loc'[w].op \in {"send_to_all", "webhook", "verify"}
  /\ loc'[w].notify = "committed"

\* C19 as stated: every notification has one recipient row for every token
\* to which delivery was attempted, delivered or not.
C19_RecipientPerAttempt ==
  \A n \in 1..Len(notifications) :
    Cardinality(RecipientsOf(recipients, n)) =
      notifications[n].sent_count + notifications[n].failed_count

\* C19 as amended: a step adds at most one notification, and only a send that
\* committed adds one; its sent_count and failed_count count the tokens whose
\* delivery succeeded and failed among the tokens the send matched, and it
\* has exactly one recipient row for every token whose delivery succeeded,
\* none for a token whose delivery failed.
C19_RecipientPerDelivered ==
  /\ [](\A n \in 1..Len(notifications) :
          Cardinality(RecipientsOf(recipients, n)) = notifications[n].sent_count)
  /\ [][/\ Len(notifications') \in {Len(notifications), Len(notifications) + 1}
        /\ Len(notifications') = Len(notifications) + 1
           => \E w \in Workers :
                LET n == Len(notifications')
                    matched == IF loc'[w].op = "send_to_all"
                               THEN {t.id : t \in device_tokens}
                               ELSE {t.id : t \in AdminTokens}
                    sent == {id \in matched : loc'[w].delivery[id] = "sent"}
                IN /\ SendStep(w)
                   /\ DOMAIN loc'[w].delivery = matched
                   /\ notifications'[n].sent_count = Cardinality(sent)
                   /\ notifications'[n].failed_count = Cardinality(matched \ sent)
                   /\ {recipients'[i].fcm_token_id : i \in RecipientsOf(recipients', n)}
                        = sent
                   /\ Cardinality(RecipientsOf(recipients', n)) = Cardinality(sent)]_vars

\* A send to two devices delivered to one and failed for the other: the
\* notification counts 1 sent and 1 failed and has one recipient row
C19_Witness ==
  \E n \in 1..Len(notifications) :
    /\ notifications[n].sent_count = 1
    /\ notifications[n].failed_count = 1
    /\ Cardinality(RecipientsOf(recipients, n)) = 1

\* C20: a send that commits removes exactly the tokens whose delivery error
\* was token-invalid; and in every state each recipient row either has its
\* token reference nulled or references a row of device_tokens.
C20_NoDanglingRecipient ==
  /\ [](\A i \in 1..Len(recipients) :
          \/ recipients[i].fcm_token_id = 0
          \/ \E t \in device_tokens : t.id = recipients[i].fcm_token_id)
  /\ [][\A w \in Workers :
          SendStep(w)
          => device_tokens' =
               {t \in device_tokens :
                  ~(t.id \in DOMAIN loc'[w].delivery
                    /\ loc'[w].delivery[t.id] = "invalid")}]_vars

\* A send found the customer's token invalid and removed it, while another
\* delivery error left the admin's token in place; the recipient row of an
\* earlier notification to the customer's device has its reference nulled
C20_Witness ==
  \E w \in Workers :
    /\ pc[w] = "done"
    /\ loc[w].op = "send_to_all"
    /\ DOMAIN loc[w].delivery = {1, 2}
    /\ loc[w].delivery[1] = "failed"
    /\ loc[w].delivery[2] = "invalid"
    /\ device_tokens = {AdminDevice}
    /\ \E i \in 1..Len(recipients) :
         recipients[i].device_id = "d2" /\ recipients[i].fcm_token_id = 0


\* C21: of two track_click calls handled one after the other for the same
\* (notification_id, device_id): a call that finds a matching recipient and
\* none of them clicked goes on to mark one and answers true; a call made when
\* a matching recipient is already clicked answers false and changes nothing;
\* a call without a matching recipient answers false (200) and changes nothing.
C21_ClickIdempotent ==
  [][\A w \in Workers :
       (pc[w] = "idle" /\ pc'[w] # "idle" /\ loc'[w].op = "track_click") =>
         LET m == MatchingRecipients(recipients, loc'[w].notification_id,
                                     loc'[w].device_id)
         IN /\ recipients' = recipients
            /\ (m = {}) =>
                 pc'[w] = "done" /\ ~loc'[w].clicked /\ loc'[w].result = 200
            /\ (\E i \in m : recipients[i].is_clicked) =>
                 pc'[w] = "done" /\ ~loc'[w].clicked
            /\ (m # {} /\ \A i \in m : ~recipients[i].is_clicked) =>
                 pc'[w] = "click_commit"]_vars

\* C22: no step changes is_clicked or clicked_at of a recipient that is
\* already clicked, and a call
\* answers true only when no recipient of its (notification_id, device_id)
\* was clicked before.
C22_ClickedOnce ==
  [][/\ \A i \in 1..Len(recipients) :
          recipients[i].is_clicked =>
            /\ recipients'[i].is_clicked
            /\ recipients'[i].clicked_at = recipients[i].clicked_at
     /\ \A w \in Workers :
          (pc[w] = "click_commit" /\ pc'[w] = "done" /\ loc'[w].clicked) =>
            \A i \in MatchingRecipients(recipients, loc[w].notification_id,
                                        loc[w].device_id) :
              ~recipients[i].is_clicked]_vars

\* C23: every row of order_items carries the id of an order of the orders
\* table, in every state; and a step that removes an order leaves no item
\* that refers to it.
C23_ItemsBelongToOrders ==
  /\ [](\A i \in 1..Len(order_items) : order_items[i].order_id \in DOMAIN orders)
  /\ [][\A o \in DOMAIN orders :
          o \notin DOMAIN orders' => ItemsOf(order_items', o) = <<>>]_vars

\* create_order committed an order with its items and has not answered yet;
\* delete_order has removed the order since, and its items with it
C23_Witness ==
  \E w \in Workers :
    /\ pc[w] = "notify"
    /\ loc[w].committed
    /\ Len(expected[loc[w].order_id]) > 0
    /\ loc[w].order_id \notin DOMAIN orders
    /\ order_items = <<>>

\* C24: a request to an admin route that carries no bearer token, an invalid
\* or expired one, one naming no existing admin, or the token of an inactive
\* admin is answered with an error (401 or 403 when the credentials are
\* missing, invalid or expired) and changes no product and no order.
C24_AdminGated ==
  [][\A w \in Workers :
       (pc[w] = "idle" /\ pc'[w] = "done" /\ loc'[w].op \in AdminOps
        /\ loc'[w].auth # "good") =>
         /\ loc'[w].result \in {400, 401, 403}
         /\ loc'[w].auth \in {"missing", "invalid", "expired"} =>
              loc'[w].result \in {401, 403}
         /\ UNCHANGED <<catalog, orderdb>>]_vars

\* The token of the inactive admin was refused on delete_order after an
\* active admin had changed the catalog; the order is still there
C24_Witness ==
  \E w \in Workers :
    /\ pc[w] = "done"
    /\ loc[w].op = "delete_order"
    /\ loc[w].auth = "inactive"
    /\ loc[w].result = 400
    /\ 1 \in DOMAIN orders
    /\ next_product_id = 3

\* C25 as stated: the webhook answers 400 when the signature is bad or the
\* event lacks the order id it needs, 500 on an internal error (no key
\* configured, a body that cannot be parsed, a failed update), and 200 for
\* every other event, which it has accepted and processed.
C25_WebhookCodes ==
  [][\A w \in Workers :
       (pc[w] # "done" /\ pc'[w] = "done" /\ loc'[w].op = "webhook") =>
         LET l == loc'[w]
             error == \/ secret = ""
                      \/ l.auth = "good" /\ l.event = "not json"
                      \/ pc[w] = "pay_update"
             refused == \/ l.auth = "bad"
                        \/ l.success /\ l.order_id = 0
         IN l.result = IF error THEN 500 ELSE IF refused THEN 400 ELSE 200]_vars

\* C25, amended: 400 is the answer to a missing or wrong signature only; a
\* signed event is answered 200 whatever it carries (also a successful charge
\* without an order id), and 500 when the key is not configured, the body
\* cannot be parsed or the update fails.
C25_WebhookCodesSignatureOnly ==
  [][\A w \in Workers :
       (pc[w] # "done" /\ pc'[w] = "done" /\ loc'[w].op = "webhook") =>
         LET l == loc'[w]
             error == \/ secret = ""
                      \/ l.auth = "good" /\ l.event = "not json"
                      \/ pc[w] = "pay_update"
         IN l.result = IF error THEN 500
                       ELSE IF l.auth = "bad" THEN 400
                       ELSE 200]_vars

\* A signed charge.success event without an order id was answered 200
C25_Witness ==
  \E w \in Workers :
    /\ pc[w] = "done"
    /\ loc[w].op = "webhook"
    /\ loc[w].auth = "good"
    /\ loc[w].success
    /\ loc[w].order_id = 0
    /\ loc[w].result = 200

\* status is one of the comma-separated values of status_filter, blanks
\* around a value not counting
Listed(status_filter, status) ==
  \E a, b \in 1..Len(status_filter) :
    /\ a <= b
    /\ a = 1 \/ status_filter[a - 1] = ","
    /\ b = Len(status_filter) \/ status_filter[b + 1] = ","
    /\ \E k \in a..b :
         /\ status_filter[k] = status
         /\ \A j \in (a..b) \ {k} : status_filter[j] = " "

\* The orders a listing request chooses from before the status filter
ListedFrom(l) ==
  IF l.op = "get_orders" THEN DOMAIN orders
  ELSE {o \in DOMAIN orders : orders[o].device_id = l.device_id}

\* C26 as stated: a listing with a status filter (and no search) returns the
\* orders whose status is one of the comma-separated values of the filter,
\* in the admin listing and in the per-device listing alike.
C26_StatusFilterOr ==
  \A w \in Workers :
    (pc[w] = "done" /\ loc[w].op \in {"get_orders", "get_user_orders"}
     /\ loc[w].status_filter # <<>> /\ loc[w].search = <<>>) =>
      loc[w].listing =
        {o \in ListedFrom(loc[w]) : Listed(loc[w].status_filter, orders[o].status)}

\* C26, amended: the per-device listing (get_user_orders) returns the orders
\* of the device whose status is one of the comma-separated values; the admin
\* listing (get_orders) returns the orders whose status is the whole filter
\* string.
C26_StatusFilterOrUserListing ==
  \A w \in Workers :
    (pc[w] = "done" /\ loc[w].status_filter # <<>> /\ loc[w].search = <<>>) =>
      /\ loc[w].op = "get_user_orders" =>
           loc[w].listing =
             {o \in ListedFrom(loc[w]) :
                Listed(loc[w].status_filter, orders[o].status)}
      /\ loc[w].op = "get_orders" =>
           loc[w].listing =
             {o \in DOMAIN orders : loc[w].status_filter = <<orders[o].status>>}

\* get_user_orders with status_filter "pending,confirmed" returned both
\* orders of device d1
C26_Witness ==
  \E w \in Workers :
    /\ pc[w] = "done"
    /\ loc[w].op = "get_user_orders"
    /\ loc[w].device_id = "d1"
    /\ loc[w].status_filter = <<"pending", ",", "confirmed">>
    /\ loc[w].listing = {1, 2}

\* The positions of search that are not hash signs
Kept(search) == {i \in 1..Len(search) : search[i] # "#"}

\* The positions of search that hold a digit
DigitsAt(search) == {i \in 1..Len(search) : search[i] \in {"1", "2"}}

\* search, once the hash signs are dropped and the blanks around it cut, is
\* a string of digits
ValidInteger(search) ==
  /\ DigitsAt(search) # {}
  /\ \A i \in Kept(search) :
       \/ i \in DigitsAt(search)
       \/ /\ search[i] = " "
          /\ \/ \A j \in DigitsAt(search) : i < j
             \/ \A j \in DigitsAt(search) : i > j

\* C27: a get_orders request with a search value that is not a valid integer
\* is answered 200 with no rows; with a valid integer it returns at most the
\* order of that id, and exactly that order when no status filter is sent.
C27_SearchById ==
  \A w \in Workers :
    (pc[w] = "done" /\ loc[w].op = "get_orders" /\ loc[w].search # <<>>) =>
      LET search == loc[w].search
          ids == IF Cardinality(DigitsAt(search)) # 1 THEN {}
                 ELSE {o \in DOMAIN orders :
                         \E i \in DigitsAt(search) :
                           search[i] = (IF o = 1 THEN "1" ELSE IF o = 2 THEN "2"
                                        ELSE "3")}
      IN /\ loc[w].result = 200
         /\ ~ValidInteger(search) => loc[w].listing = {}
         /\ ValidInteger(search) =>
              /\ loc[w].listing \subseteq ids
              /\ loc[w].status_filter = <<>> => loc[w].listing = ids

\* The search "#1" returned order 1
C27_Witness ==
  \E w \in Workers :
    /\ pc[w] = "done"
    /\ loc[w].op = "get_orders"
    /\ loc[w].search = <<"#", "1">>
    /\ loc[w].listing = {1}

\* C28: a payment handler writes "confirmed" to a pending order only when the
\* amount the provider reported is the order's total in kobo, every
\* transaction initialize_payment opened for the order being of that total.
C28_ConfirmOnlyPaidInFull ==
  [][\A w \in Workers :
       (pc[w] = "pay_update" /\ pc'[w] = "pay_notify") =>
         LET total_kobo == orders[loc[w].order_id].total_amount * 100
         IN /\ loc[w].amount = total_kobo
            /\ \A t \in transactions :
                 t.order_id = loc[w].order_id => t.amount = total_kobo]_vars

\* C29: a register_token call that met the uniqueness conflict (its INSERT
\* raised IntegrityError) has retried as an update and answers with success,
\* whatever other register_token and unsubscribe_token calls did meanwhile.
C29_ConflictNotSurfaced ==
  \A w \in Workers :
    (pc[w] = "done" /\ loc[w].op = "register" /\ loc[w].retried) =>
      loc[w].result = 200

\* C30: a send that commits (send_to_all, or the admin send of a payment
\* handler) adds one Notification row whose sent_count + failed_count is the
\* number of device tokens the send attempted and whose sent_count is the
\* number of NotificationRecipient rows created for it; and in every state
\* the sent_count of every notification is the number of its recipient rows.
C30_CountsAddUp ==
  /\ [](\A n \in 1..Len(notifications) :
          notifications[n].sent_count = Cardinality(RecipientsOf(recipients, n)))
  /\ [][\A w \in Workers :
          SendStep(w)
          => LET n == Len(notifications')
                 attempted == DOMAIN loc'[w].delivery
                 created == RecipientsOf(recipients', n)
             IN /\ n = Len(notifications) + 1
                /\ attempted = IF loc'[w].op = "send_to_all"
                               THEN {t.id : t \in device_tokens}
                               ELSE {t.id : t \in AdminTokens}
                /\ notifications'[n].sent_count + notifications'[n].failed_count
                     = Cardinality(attempted)
                /\ notifications'[n].sent_count = Cardinality(created)
                /\ \A i \in created : i > Len(recipients)]_vars

\* A send attempted two tokens, delivered to one and found the other
\* invalid: its notification counts 1 sent and 1 failed and has one recipient
C30_Witness ==
  \E w \in Workers :
    /\ pc[w] = "done"
    /\ loc[w].op = "send_to_all"
    /\ loc[w].notify = "committed"
    /\ Cardinality(DOMAIN loc[w].delivery) = 2
    /\ \E a, b \in DOMAIN loc[w].delivery :
         loc[w].delivery[a] = "sent" /\ loc[w].delivery[b] = "invalid"
    /\ LET n == Len(notifications)
       IN /\ n > 0
          /\ notifications[n].sent_count = 1
          /\ notifications[n].failed_count = 1
          /\ Cardinality(RecipientsOf(recipients, n)) = 1
====
